---- MODULE Spec2Model ----
(***************************************************************************)
(* A model of the end-to-end test harness of datahub-service:              *)
(*   - APIResponse, the response normalizer (utils/api_client.py)          *)
(*   - APIClient.request and the urllib3 Retry strategy it mounts          *)
(* Python values are tagged records; Python strings are sequences of       *)
(* one-character strings so that lower(), slicing and formatting are       *)
(* computed and not assumed.                                               *)
(***************************************************************************)
EXTENDS Integers, Sequences, FiniteSets, TLC

(***************************************************************************)
(* Python values as json.loads produces them.                              *)
(***************************************************************************)
PyNone == [t |-> "NoneType"]
PyBool(x) == [t |-> "bool", b |-> x]
PyInt(n) == [t |-> "int", i |-> n]
\* a float with integral value n (0.0, 1.0): enough to tell float from int
PyFloat(n) == [t |-> "float", f |-> n]
PyStr(chars) == [t |-> "str", s |-> chars]
PyList(elems) == [t |-> "list", l |-> elems]
PyDict(fn) == [t |-> "dict", d |-> fn]

\* what response.json() raises on a body that is not JSON
JSONDecodeError == [t |-> "JSONDecodeError"]

\* bool(x): the truth value Python gives a value in `if x:` / `not x`
Truthy(x) ==
    CASE x.t = "NoneType" -> FALSE
      [] x.t = "bool" -> x.b
      [] x.t = "int" -> x.i # 0
      [] x.t = "float" -> x.f # 0
      [] x.t = "str" -> Len(x.s) > 0
      [] x.t = "list" -> Len(x.l) > 0
      [] x.t = "dict" -> DOMAIN x.d # {}

\* isinstance(x, int): bool is a subclass of int
IsInstanceInt(x) == x.t \in {"int", "bool"}

IsInstanceStr(x) == x.t = "str"

\* the integer an int (or bool) compares as
IntOf(x) == IF x.t = "bool" THEN (IF x.b THEN 1 ELSE 0) ELSE x.i

\* dict.get(key, default)
DictGet(dict, key, default) ==
    IF key \in DOMAIN dict.d THEN dict.d[key] ELSE default

\* x[0], as an outcome: the element or the exception class Python raises (the
\* keys of a JSON object are strings, so 0 is never one)
Subscript0(x) ==
    CASE x.t = "list" -> IF Len(x.l) > 0 THEN [exc |-> "none", val |-> x.l[1]]
                         ELSE [exc |-> "IndexError"]
      [] x.t = "str" -> IF Len(x.s) > 0
                        THEN [exc |-> "none", val |-> PyStr(<<x.s[1]>>)]
                        ELSE [exc |-> "IndexError"]
      [] x.t = "dict" -> [exc |-> "KeyError"]
      [] OTHER -> [exc |-> "TypeError"]

\* x[key] for a string key, as an outcome
SubscriptKey(x, key) ==
    IF x.t = "dict"
    THEN (IF key \in DOMAIN x.d THEN [exc |-> "none", val |-> x.d[key]]
          ELSE [exc |-> "KeyError"])
    ELSE [exc |-> "TypeError"]

(***************************************************************************)
(* Strings.                                                                *)
(***************************************************************************)
UpperChars == <<"A", "B", "C", "D", "E", "F", "G", "H", "I", "J", "K", "L", "M",
                "N", "O", "P", "Q", "R", "S", "T", "U", "V", "W", "X", "Y", "Z">>
LowerChars == <<"a", "b", "c", "d", "e", "f", "g", "h", "i", "j", "k", "l", "m",
                "n", "o", "p", "q", "r", "s", "t", "u", "v", "w", "x", "y", "z">>

LowerChar(c) ==
    IF \E k \in DOMAIN UpperChars : UpperChars[k] = c
    THEN LowerChars[CHOOSE k \in DOMAIN UpperChars : UpperChars[k] = c]
    ELSE c

\* str.lower() on an ASCII string
StrLower(chars) == [k \in DOMAIN chars |-> LowerChar(chars[k])]

DigitChars == <<"0", "1", "2", "3", "4", "5", "6", "7", "8", "9">>

RECURSIVE Digits(_)
\* the decimal digits of n >= 0, as str(n) / f"{n}" writes them
Digits(n) ==
    IF n < 10 THEN <<DigitChars[n + 1]>>
    ELSE Digits(n \div 10) \o <<DigitChars[(n % 10) + 1]>>

\* str(x) for the scalar values an `error` / `msg` field carries here
ToStr(x) ==
    CASE x.t = "str" -> x.s
      [] x.t = "int" -> Digits(x.i)
      [] x.t = "float" -> Digits(x.f) \o <<".", "0">>
      [] x.t = "bool" -> IF x.b THEN <<"T", "r", "u", "e">>
                                ELSE <<"F", "a", "l", "s", "e">>
      [] x.t = "NoneType" -> <<"N", "o", "n", "e">>

Min(a, b) == IF a < b THEN a ELSE b

\* text[:n]
Prefix(chars, n) == SubSeq(chars, 1, Min(Len(chars), n))

(***************************************************************************)
(* The raw responses the normalizer is given: what the server sent         *)
(* (status code, body text) and what response.json() makes of the body.    *)
(***************************************************************************)
S_empty == <<>>
S_success == <<"s", "u", "c", "c", "e", "s", "s">>
S_SUCCESS == <<"S", "U", "C", "C", "E", "S", "S">>
S_ok == <<"o", "k">>
S_Ok == <<"O", "k">>
S_200 == <<"2", "0", "0">>
S_fail == <<"f", "a", "i", "l">>
S_okay == <<"o", "k", "a", "y">>
S_bad == <<"b", "a", "d">>
S_err == <<"e", "r", "r">>
S_note == <<"n", "o", "t", "e">>
S_html == <<"<", "h", "t", "m", "l", ">">>

\* the slice error_info takes of the body
ExcerptLen == 200

\* the longest plain-text body that is generated
MaxTextLen == 201

Filler(n) == [k \in 1..n |-> "x"]

\* a business failure whose JSON text is longer than the excerpt
LongObject == PyDict([status |-> PyInt(1), data |-> PyStr(Filler(MaxTextLen))])

\* a key a body does not carry
Absent == [t |-> "absent"]

StatusValues ==
    { Absent, PyNone, PyBool(TRUE), PyBool(FALSE),
      PyInt(0), PyInt(1), PyInt(200), PyFloat(0), PyFloat(1),
      PyStr(S_success), PyStr(S_SUCCESS), PyStr(S_ok), PyStr(S_Ok),
      PyStr(S_200), PyStr(S_fail), PyStr(S_okay), PyStr(S_empty) }

ErrorValues == { Absent, PyNone, PyStr(S_empty), PyStr(S_err), PyInt(7) }

MsgValues == { Absent, PyNone, PyStr(S_empty), PyStr(S_bad) }

MessageValues == { Absent, PyStr(S_note) }

DataValues == { Absent, PyNone, PyList(<<PyInt(1)>>) }

BodyKeys == <<"status", "msg", "message", "data", "error", "list", "id", "name",
              "total">>

KeyChars(key) ==
    CASE key = "status" -> <<"s", "t", "a", "t", "u", "s">>
      [] key = "msg" -> <<"m", "s", "g">>
      [] key = "message" -> <<"m", "e", "s", "s", "a", "g", "e">>
      [] key = "data" -> <<"d", "a", "t", "a">>
      [] key = "error" -> <<"e", "r", "r", "o", "r">>
      [] key = "list" -> <<"l", "i", "s", "t">>
      [] key = "id" -> <<"i", "d">>
      [] key = "name" -> <<"n", "a", "m", "e">>
      [] key = "total" -> <<"t", "o", "t", "a", "l">>

\* the JSON object carrying exactly the keys of `fields` that are not Absent
ObjectOf(fields) ==
    PyDict([k \in {x \in DOMAIN fields : fields[x] # Absent} |-> fields[k]])

JsonObjects ==
    { ObjectOf(fields) :
        fields \in [status : StatusValues, msg : MsgValues, message : MessageValues,
                    data : DataValues, error : ErrorValues] }

\* JSON documents that are not objects
JsonScalarsAndArrays ==
    { PyNone, PyBool(FALSE), PyBool(TRUE), PyInt(0), PyInt(5), PyStr(S_empty),
      PyStr(S_ok), PyList(<<>>), PyList(<<PyInt(1)>>) }

JsonDocuments == JsonObjects \cup JsonScalarsAndArrays \cup { LongObject }

RECURSIVE Dumps(_), DumpsElems(_, _), DumpsMembers(_, _)
\* the text of a JSON document (keys in BodyKeys order, ", " and ": " separators)
Dumps(x) ==
    CASE x.t = "NoneType" -> <<"n", "u", "l", "l">>
      [] x.t = "bool" -> IF x.b THEN <<"t", "r", "u", "e">>
                                ELSE <<"f", "a", "l", "s", "e">>
      [] x.t = "int" -> Digits(x.i)
      [] x.t = "float" -> Digits(x.f) \o <<".", "0">>
      [] x.t = "str" -> <<"\"">> \o x.s \o <<"\"">>
      [] x.t = "list" -> <<"[">> \o DumpsElems(x.l, 1) \o <<"]">>
      [] x.t = "dict" -> <<"{">> \o DumpsMembers(x, 1) \o <<"}">>

DumpsElems(elems, k) ==
    IF k > Len(elems) THEN <<>>
    ELSE (IF k > 1 THEN <<",", " ">> ELSE <<>>) \o Dumps(elems[k])
         \o DumpsElems(elems, k + 1)

DumpsMembers(obj, k) ==
    IF k > Len(BodyKeys) THEN <<>>
    ELSE LET key == BodyKeys[k]
             first == \A j \in 1..(k - 1) : BodyKeys[j] \notin DOMAIN obj.d
         IN (IF key \in DOMAIN obj.d
             THEN (IF first THEN <<>> ELSE <<",", " ">>)
                  \o <<"\"">> \o KeyChars(key) \o <<"\"", ":", " ">>
                  \o Dumps(obj.d[key])
             ELSE <<>>)
            \o DumpsMembers(obj, k + 1)

\* bodies response.json() rejects: empty, an HTML page, long plain text
NonJsonTexts == { S_empty, S_html, Filler(ExcerptLen), Filler(MaxTextLen) }

StatusCodes == { 200, 201, 300, 400, 404, 500 }

RawResponses ==
    { [status_code |-> c, text |-> Dumps(doc), json |-> doc] :
        c \in StatusCodes, doc \in JsonDocuments }
    \cup
    { [status_code |-> c, text |-> txt, json |-> JSONDecodeError] :
        c \in StatusCodes, txt \in NonJsonTexts }

(***************************************************************************)
(* APIResponse                                                             *)
(***************************************************************************)
\* a property that returned v / that raised exception class e
Returned(v) == [exc |-> "none", val |-> v]
Raised(e) == [exc |-> e]

\* response.json(): the parsed document, or the exception it raises
ResponseJson(response) == response.json

\* the classes named by `except (json.JSONDecodeError, ValueError)`
CaughtOnParse == { "JSONDecodeError", "ValueError" }

\* APIResponse.__init__: an exception of json() outside the except clause propagates
APIResponse(response) ==
    LET parsed == ResponseJson(response)
        failed == parsed.t \in { "JSONDecodeError", "ValueError" }
    IN IF failed /\ parsed.t \notin CaughtOnParse THEN Raised(parsed.t)
       ELSE [ status_code |-> response.status_code,
              json_data   |-> IF failed THEN PyNone ELSE parsed,
              text        |-> response.text,
              is_success  |-> (200 <= response.status_code
                               /\ response.status_code < 300) ]

\* the list business_success looks the lowercased status up in
SuccessWords == <<S_success, S_ok, S_200>>

\* business_success with an integer status of 0 counted only on a 2xx response
business_success_TransportGated(self) ==
    IF ~Truthy(self.json_data) THEN Returned(FALSE)
    ELSE IF self.json_data.t # "dict" THEN Raised("AttributeError")
    ELSE LET status == DictGet(self.json_data, "status", PyNone)
         IN IF IsInstanceInt(status)
            THEN Returned(IntOf(status) = 0 /\ self.is_success)
            ELSE IF IsInstanceStr(status)
                 THEN Returned(\E k \in DOMAIN SuccessWords :
                                   SuccessWords[k] = StrLower(status.s))
                 ELSE Returned(self.is_success)

\* business_success falling back to is_success when there is no JSON body
business_success_NoJsonFallsBack(self) ==
    IF self.json_data = PyNone THEN Returned(self.is_success)
    ELSE IF ~Truthy(self.json_data) THEN Returned(FALSE)
    ELSE IF self.json_data.t # "dict" THEN Raised("AttributeError")
    ELSE LET status == DictGet(self.json_data, "status", PyNone)
         IN IF IsInstanceInt(status) THEN Returned(IntOf(status) = 0)
            ELSE IF IsInstanceStr(status)
                 THEN Returned(\E k \in DOMAIN SuccessWords :
                                   SuccessWords[k] = StrLower(status.s))
                 ELSE Returned(self.is_success)

\* business_success comparing the status string without lower()
business_success_NoLower(self) ==
    IF ~Truthy(self.json_data) THEN Returned(FALSE)
    ELSE IF self.json_data.t # "dict" THEN Raised("AttributeError")
    ELSE LET status == DictGet(self.json_data, "status", PyNone)
         IN IF IsInstanceInt(status) THEN Returned(IntOf(status) = 0)
            ELSE IF IsInstanceStr(status)
                 THEN Returned(\E k \in DOMAIN SuccessWords :
                                   SuccessWords[k] = status.s)
                 ELSE Returned(self.is_success)

\* business_success whose transport fallback also wants a data payload
business_success_NeedsData(self) ==
    IF ~Truthy(self.json_data) THEN Returned(FALSE)
    ELSE IF self.json_data.t # "dict" THEN Raised("AttributeError")
    ELSE LET status == DictGet(self.json_data, "status", PyNone)
         IN IF IsInstanceInt(status) THEN Returned(IntOf(status) = 0)
            ELSE IF IsInstanceStr(status)
                 THEN Returned(\E k \in DOMAIN SuccessWords :
                                   SuccessWords[k] = StrLower(status.s))
                 ELSE Returned(self.is_success
                               /\ Truthy(DictGet(self.json_data, "data", PyNone)))

\* APIResponse.business_success
business_success(self) ==
    IF ~Truthy(self.json_data) THEN Returned(FALSE)
    ELSE IF self.json_data.t # "dict" THEN Raised("AttributeError")
    ELSE LET status == DictGet(self.json_data, "status", PyNone)
         IN IF IsInstanceInt(status) THEN Returned(IntOf(status) = 0)
            ELSE IF IsInstanceStr(status)
                 THEN Returned(\E k \in DOMAIN SuccessWords :
                                   SuccessWords[k] = StrLower(status.s))
                 ELSE Returned(self.is_success)

\* APIResponse.business_message
business_message(self) ==
    IF ~Truthy(self.json_data) THEN Returned(PyStr(S_empty))
    ELSE IF self.json_data.t # "dict" THEN Raised("AttributeError")
    ELSE Returned(DictGet(self.json_data, "msg",
                          DictGet(self.json_data, "message", PyStr(S_empty))))

\* APIResponse.business_data
business_data(self) ==
    IF ~Truthy(self.json_data) THEN Returned(PyNone)
    ELSE IF self.json_data.t # "dict" THEN Raised("AttributeError")
    ELSE Returned(DictGet(self.json_data, "data", PyNone))

\* f"HTTP {self.status_code}: {self.text[:200]}"
HttpExcerpt(self) ==
    <<"H", "T", "T", "P", " ">> \o Digits(self.status_code) \o <<":", " ">>
    \o Prefix(self.text, ExcerptLen)

\* APIResponse.error_info
error_info(self) ==
    IF ~Truthy(self.json_data) THEN Returned(HttpExcerpt(self))
    ELSE IF self.json_data.t # "dict" THEN Raised("AttributeError")
    ELSE LET error == DictGet(self.json_data, "error",
                              DictGet(self.json_data, "msg", PyStr(S_empty)))
         IN IF Truthy(error) THEN Returned(ToStr(error))
            ELSE Returned(HttpExcerpt(self))

(***************************************************************************)
(* APIClient: the retry strategy mounted on the session.                   *)
(***************************************************************************)
\* retry_count: int = 3
DefaultRetryCount == 3

\* the largest retry_count a client is constructed with
MaxRetryCount == 3

\* 'total': retry_count with one retry more than asked for
RetryTotal_OneMore(count) == count + 1

\* 'total': retry_count, the number of retries urllib3 allows after the first try
RetryTotal(count) == count

\* 'status_forcelist'
StatusForcelist == { 429, 500, 502, 503, 504 }

\* allowed_methods / method_whitelist
AllowedMethods == { "HEAD", "GET", "OPTIONS", "POST", "PUT", "DELETE" }

\* the methods of get / post / put / delete / patch
ClientMethods == { "GET", "POST", "PUT", "DELETE", "PATCH" }

\* Retry.RETRY_AFTER_STATUS_CODES, in force as respect_retry_after_header is
\* left at its default
RetryAfterStatusCodes == { 413, 429, 503 }

\* Retry._is_method_retryable
IsMethodRetryable(m) == m \in AllowedMethods

\* Retry.is_retry for a Retry whose remaining total is t
IsRetry(m, status, has_retry_after, t) ==
    /\ IsMethodRetryable(m)
    /\ \/ status \in StatusForcelist
       \/ (t # 0 /\ has_retry_after /\ status \in RetryAfterStatusCodes)

\* is_exhausted of a Retry that never gives up
IsExhausted_Never(t) == FALSE

\* Retry.is_exhausted: only `total` is set, and a count of 0 is not exhausted
IsExhausted(t) == t < 0

\* the attempts a call is followed for: one more than the strategy allows
MaxAttempts == MaxRetryCount + 2

\* what the server (or the network) does with one attempt
ServerStatuses == { 200, 404, 413, 500, 503 }

Replies ==
    { [kind |-> "response", status |-> c, retry_after |-> FALSE] : c \in ServerStatuses }
    \cup
    { [kind |-> "response", status |-> c, retry_after |-> TRUE] : c \in { 413, 503 } }

ConnectFailure == [kind |-> "connect_error"]
ReadFailure == [kind |-> "read_error"]

\* the bodies a reply carries: business success, business failure, not JSON
ReplyBodies ==
    { PyDict([status |-> PyInt(0), msg |-> PyStr(S_ok)]),
      PyDict([status |-> PyInt(1), msg |-> PyStr(S_bad)]),
      JSONDecodeError }

RawOf(status, body) ==
    [ status_code |-> status,
      text |-> IF body.t = "JSONDecodeError" THEN S_html ELSE Dumps(body),
      json |-> body ]

(***************************************************************************)
(* State.                                                                  *)
(***************************************************************************)
VARIABLES
    raw,         \* the requests.Response handed to APIResponse
    resp,        \* the APIResponse built from it, PyNone before construction
    twin_raw,    \* a second raw response, to compare two normalizations
    twin,        \* the APIResponse built from twin_raw
    retry_count, \* APIClient.retry_count
    pc,          \* where APIClient.request is: idle, sending, returned, raised
    method,      \* the HTTP method of the call
    total,       \* the remaining total of the Retry object of the call
    attempts,    \* the attempts made for the call so far
    history,     \* what each attempt met, in order
    raised,      \* the exception request() raised, "none" if none
    calls,       \* the API calls a harness operation has issued, in order
    wf_pc,       \* where create_complete_workflow is
    schedule_config,   \* its schedule_config argument
    results,     \* its `results` dict, and that of cleanup_test_data
    suite_pc,    \* where the workflow suite is: the test method and its step
    test_id,     \* cls.test_id, the token of the run
    created_resources, \* cls.created_resources
    printed,     \* what the suite has printed and the cleaner has logged, in order
    verdicts,    \* the outcome unittest records for each test method that ran
    selected,    \* the test methods of the suite the loader selected, in order
    cleanup_config, \* cls.cleanup_config, with the defaults of its two reads
    cleanup_pc,  \* where the cleanup run is
    registered,  \* TestCleaner.created_resources
    cleanup_index,     \* the position of the cleanup loop in its list
    health_pc,   \* where validate_workflow_health is
    health_status,     \* its `health_status` dict
    runner_pc,   \* where main() of run_tests.py is: idle, running, ran, reported,
                 \* exited (sys.exit after the report), aborted (sys.exit(1) in
                 \* except Exception)
    executed,    \* the outcomes of the tests unittest has executed, in order
    result,      \* TestRunner.result, a TestResult
    report,      \* the JSON report on disk, NoReport before it is written
    exit_code,   \* the exit code of the process, NoExit while it runs
    config_pc,   \* where TestConfig is: unloaded, loaded, raised (__init__ raised)
    common_path, \* the path __init__ handed to _load_config for the common file
    common_file, \* what is on disk at that path
    heap,        \* the dict objects of the configuration, by identity
    loaded,      \* the common and the module configurations as json.load gave them
    module_configs,    \* TestConfig._module_configs: module name -> its dict
    merged,      \* what the last get_merged_config returned
    main_pc,     \* where test_concurrent_requests is, in its main thread
    workers,     \* the state of each worker thread
    queue,       \* the `results` queue of test_concurrent_requests
    counts,      \* success_count and error_count once collected
    invalid_pc,  \* where test_add_basic_library_invalid_data is: its case
    client_error_codes, \* validation.expected_status_codes.client_error, if set
    sub_verdicts \* per case that ran: accepted, failed or error

normalizerVars == <<raw, resp, twin_raw, twin>>

clientVars == <<retry_count, pc, method, total, attempts, history, raised>>

workflowVars == <<wf_pc, schedule_config, results>>

suiteVars ==
    <<suite_pc, test_id, created_resources, printed, verdicts, selected,
      cleanup_config>>

cleanupVars == <<cleanup_pc, registered, cleanup_index>>

healthVars == <<health_pc, health_status>>

runnerVars == <<runner_pc, executed, result, report, exit_code>>

configVars ==
    <<config_pc, common_path, common_file, heap, loaded, module_configs, merged>>

poolVars == <<main_pc, workers, queue, counts>>

invalidVars == <<invalid_pc, client_error_codes, sub_verdicts>>

harnessVars == <<calls, workflowVars, suiteVars, cleanupVars, healthVars, runnerVars,
                 configVars, poolVars, invalidVars>>

vars == <<raw, resp, twin_raw, twin, retry_count, pc, method, total, attempts,
          history, raised, calls, wf_pc, schedule_config, results, suite_pc,
          test_id, created_resources, printed, verdicts, cleanup_pc, registered,
          cleanup_index, health_pc, health_status, runner_pc, executed, result,
          report, exit_code, selected, cleanup_config, config_pc, common_path,
          common_file, heap,
          loaded, module_configs, merged, main_pc, workers, queue, counts,
          invalid_pc, client_error_codes, sub_verdicts>>

\* a constructed client with no call made
ClientIdle ==
    /\ pc = "idle"
    /\ method = "GET"
    /\ total = RetryTotal(retry_count)
    /\ attempts = 0
    /\ history = <<>>
    /\ raised = "none"

\* no response received
NormalizerIdle ==
    /\ raw = PyNone
    /\ resp = PyNone
    /\ twin_raw = PyNone
    /\ twin = PyNone

\* the empty dict
EmptyDict == [k \in {} |-> PyNone]

\* create_complete_workflow has not been called
WorkflowIdle ==
    /\ wf_pc = "idle"
    /\ schedule_config = PyNone
    /\ results = EmptyDict

\* the run's token when no suite runs
NoToken == <<>>

\* setUpClass: created_resources, all ids None
NoResources == [library_id |-> PyNone, datasource_id |-> PyNone, interface_id |-> PyNone]

\* cleanup_config.get('auto_cleanup', True) and .get('cleanup_on_failure', True)
CleanupConfig(auto_cleanup, cleanup_on_failure) ==
    [auto_cleanup |-> auto_cleanup, cleanup_on_failure |-> cleanup_on_failure]

\* a configuration that switches both cleanups off
NoCleanup == CleanupConfig(FALSE, FALSE)

\* the workflow suite does not run
SuiteIdle ==
    /\ suite_pc = [test |-> "none", step |-> "idle"]
    /\ test_id = NoToken
    /\ created_resources = NoResources
    /\ printed = <<>>
    /\ verdicts = <<>>
    /\ selected = <<>>
    /\ cleanup_config = NoCleanup

\* TestCleaner.__init__: created_resources, every list empty
NothingRegistered ==
    [basic_libraries |-> <<>>, datasources |-> <<>>, interfaces |-> <<>>,
     schedules |-> <<>>]

\* no cleanup runs and nothing is registered
CleanupIdle ==
    /\ cleanup_pc = [proc |-> "none", phase |-> "idle"]
    /\ registered = NothingRegistered
    /\ cleanup_index = 1

\* validate_workflow_health has not been called
HealthIdle ==
    /\ health_pc = "idle"
    /\ health_status = PyNone

\* no report file / the process has not exited
NoReport == [written |-> FALSE]
NoExit == -1

\* TestResult.__init__
NewTestResult ==
    [ start_time |-> "None", end_time |-> "None", total_tests |-> 0,
      passed_tests |-> 0, failed_tests |-> 0, error_tests |-> 0,
      skipped_tests |-> 0, failures |-> <<>>, errors |-> <<>>,
      test_details |-> <<>> ]

\* the runner has not started
RunnerIdle ==
    /\ runner_pc = "idle"
    /\ executed = <<>>
    /\ result = NewTestResult
    /\ report = NoReport
    /\ exit_code = NoExit

\* no path / no file / no merged configuration yet
NoPath == <<>>
NoFile == [kind |-> "none"]
NoMerged == [module |-> "none"]

\* no TestConfig has been constructed
ConfigIdle ==
    /\ config_pc = "unloaded"
    /\ common_path = NoPath
    /\ common_file = NoFile
    /\ heap = <<>>
    /\ loaded = [common |-> PyNone, modules |-> <<>>]
    /\ module_configs = <<>>
    /\ merged = NoMerged

\* success_count / error_count before the results are collected
NoCounts == [collected |-> FALSE]

\* test_concurrent_requests does not run
PoolIdle ==
    /\ main_pc = [phase |-> "idle", i |-> 0]
    /\ workers = <<>>
    /\ queue = <<>>
    /\ counts = NoCounts

\* test_add_basic_library_invalid_data does not run
InvalidIdle ==
    /\ invalid_pc = 0
    /\ client_error_codes = PyNone
    /\ sub_verdicts = <<>>

\* no harness operation runs
HarnessIdle ==
    /\ calls = <<>>
    /\ WorkflowIdle
    /\ SuiteIdle
    /\ CleanupIdle
    /\ HealthIdle
    /\ RunnerIdle
    /\ ConfigIdle
    /\ PoolIdle
    /\ InvalidIdle

\* resp = APIResponse(raw_response)
Construct ==
    /\ raw # PyNone
    /\ resp = PyNone
    /\ resp' = APIResponse(raw)
    /\ UNCHANGED <<raw, twin_raw, twin>>
    /\ UNCHANGED clientVars
    /\ UNCHANGED harnessVars

\* twin = APIResponse(second raw response)
ConstructTwin ==
    /\ twin_raw # PyNone
    /\ twin = PyNone
    /\ twin' = APIResponse(twin_raw)
    /\ UNCHANGED <<raw, resp, twin_raw>>
    /\ UNCHANGED clientVars
    /\ UNCHANGED harnessVars

InitResponse ==
    /\ raw \in RawResponses
    /\ resp = PyNone
    /\ twin_raw = PyNone
    /\ twin = PyNone
    /\ retry_count = DefaultRetryCount
    /\ ClientIdle
    /\ HarnessIdle

NextResponse == Construct

\* one response is normalized
SpecResponse == InitResponse /\ [][NextResponse]_vars

\* the responses two normalizations are compared on
PairDocuments ==
    { ObjectOf(fields) :
        fields \in [status : { Absent, PyInt(0), PyInt(1), PyStr(S_ok), PyStr(S_fail) },
                    msg : { Absent, PyStr(S_bad) }, message : { Absent },
                    data : { Absent, PyList(<<PyInt(1)>>) }, error : { Absent }] }
    \cup { PyNone, PyList(<<>>), PyList(<<PyInt(1)>>) }

PairResponses ==
    { [status_code |-> c, text |-> Dumps(doc), json |-> doc] :
        c \in { 200, 500 }, doc \in PairDocuments }
    \cup
    { [status_code |-> c, text |-> S_html, json |-> JSONDecodeError] : c \in { 200, 500 } }

InitPair ==
    /\ raw \in PairResponses
    /\ resp = PyNone
    /\ twin_raw \in PairResponses
    /\ twin = PyNone
    /\ retry_count = DefaultRetryCount
    /\ ClientIdle
    /\ HarnessIdle

NextPair == Construct \/ ConstructTwin

\* two responses are normalized independently
SpecPair == InitPair /\ [][NextPair]_vars

(***************************************************************************)
(* APIClient.request                                                       *)
(***************************************************************************)
\* request(method, endpoint): up to the call of session.request
Request(m) ==
    /\ pc = "idle"
    /\ pc' = "sending"
    /\ method' = m
    /\ total' = RetryTotal(retry_count)
    /\ attempts' = 0
    /\ history' = <<>>
    /\ raised' = "none"
    /\ UNCHANGED <<retry_count, raw, resp, twin_raw, twin>>
    /\ UNCHANGED harnessVars

\* an attempt is answered: urlopen retries it, gives up (MaxRetryError, which
\* requests raises as RetryError and request() re-raises), or returns the
\* response, which request() wraps in an APIResponse
ReceiveReply(reply, body) ==
    /\ pc = "sending"
    /\ attempts < MaxAttempts
    /\ attempts' = attempts + 1
    /\ history' = Append(history, reply)
    /\ IF IsRetry(method, reply.status, reply.retry_after, total)
       THEN /\ total' = total - 1
            /\ IF IsExhausted(total - 1)
               THEN pc' = "raised" /\ raised' = "RetryError"
               ELSE pc' = "sending" /\ raised' = "none"
            /\ UNCHANGED <<raw, resp>>
       ELSE /\ raw' = RawOf(reply.status, body)
            /\ resp' = APIResponse(RawOf(reply.status, body))
            /\ pc' = IF "exc" \in DOMAIN APIResponse(RawOf(reply.status, body))
                     THEN "raised" ELSE "returned"
            /\ raised' = IF "exc" \in DOMAIN APIResponse(RawOf(reply.status, body))
                         THEN APIResponse(RawOf(reply.status, body)).exc ELSE "none"
            /\ UNCHANGED total
    /\ UNCHANGED <<retry_count, method, twin_raw, twin>>
    /\ UNCHANGED harnessVars

\* an attempt cannot connect: retried for every method until the total is used up
ConnectFails ==
    /\ pc = "sending"
    /\ attempts < MaxAttempts
    /\ attempts' = attempts + 1
    /\ history' = Append(history, ConnectFailure)
    /\ total' = total - 1
    /\ IF IsExhausted(total - 1)
       THEN pc' = "raised" /\ raised' = "ConnectionError"
       ELSE pc' = "sending" /\ raised' = "none"
    /\ UNCHANGED <<retry_count, method, raw, resp, twin_raw, twin>>
    /\ UNCHANGED harnessVars

\* an attempt is sent and the read fails (timeout, connection reset): re-raised
\* at once for a method outside allowed_methods, else retried like the above
ReadFails ==
    /\ pc = "sending"
    /\ attempts < MaxAttempts
    /\ attempts' = attempts + 1
    /\ history' = Append(history, ReadFailure)
    /\ IF ~IsMethodRetryable(method)
       THEN pc' = "raised" /\ raised' = "ReadTimeout" /\ UNCHANGED total
       ELSE /\ total' = total - 1
            /\ IF IsExhausted(total - 1)
               THEN pc' = "raised" /\ raised' = "ConnectionError"
               ELSE pc' = "sending" /\ raised' = "none"
    /\ UNCHANGED <<retry_count, method, raw, resp, twin_raw, twin>>
    /\ UNCHANGED harnessVars

InitRequest ==
    /\ NormalizerIdle
    /\ retry_count \in 0..MaxRetryCount
    /\ ClientIdle
    /\ HarnessIdle

NextRequest ==
    \/ \E m \in ClientMethods : Request(m)
    \/ \E reply \in Replies, body \in ReplyBodies : ReceiveReply(reply, body)
    \/ ConnectFails
    \/ ReadFails

\* one call of APIClient.request
SpecRequest == InitRequest /\ [][NextRequest]_vars

\* session.request is given timeout=self.timeout (kwargs.setdefault), so an attempt
\* that is under way ends: it is answered, fails to connect, or fails to read
Attempt ==
    \/ \E reply \in Replies, body \in ReplyBodies : ReceiveReply(reply, body)
    \/ ConnectFails
    \/ ReadFails

\* one call of APIClient.request in which every attempt ends
SpecRequestFair == InitRequest /\ [][NextRequest]_vars /\ WF_vars(Attempt)

(***************************************************************************)
(* Properties of the response normalizer, under SpecResponse.              *)
(***************************************************************************)
Built == resp # PyNone /\ "exc" \notin DOMAIN resp

\* the body is a JSON object
IsObject(response) == response.json.t = "dict"

\* the status field of the body, Absent when the body has none
StatusField(response) ==
    IF IsObject(response) /\ "status" \in DOMAIN response.json.d
    THEN response.json.d["status"]
    ELSE Absent

\* the status field is a JSON number / a JSON string
NumericStatus(response) == StatusField(response).t \in { "int", "float" }
StringStatus(response) == StatusField(response).t = "str"

\* the value of a numeric status
NumberOf(x) == IF x.t = "float" THEN x.f ELSE x.i

C3_NoStatusFallsBackToTransport ==
    (Built /\ IsObject(raw) /\ StatusField(raw) = Absent)
        => business_success(resp) = Returned(resp.is_success)

\* C5: with a string status field, business_success is true iff the lowercased
\* status is "success", "ok" or "200", whatever the HTTP status code is.
C5_StringStatusDecides ==
    (Built /\ StringStatus(raw))
        => business_success(resp)
             = Returned(StrLower(StatusField(raw).s) \in { S_success, S_ok, S_200 })

\* "SUCCESS" on a 500 response is a business success; "okay" on 200 is not
C5_Witness ==
    /\ Built
    /\ StatusField(raw) = PyStr(S_SUCCESS)
    /\ raw.status_code = 500
    /\ business_success(resp) = Returned(TRUE)

C5_WitnessRejected ==
    /\ Built
    /\ StatusField(raw) = PyStr(S_okay)
    /\ raw.status_code = 200
    /\ business_success(resp) = Returned(FALSE)

\* a field of the body, Absent when the body is no object or lacks it
FieldOf(response, key) ==
    IF IsObject(response) /\ key \in DOMAIN response.json.d
    THEN response.json.d[key]
    ELSE Absent

\* the field is present and non-empty
NonEmpty(x) == x # Absent /\ Truthy(x)

\* "HTTP <status code>: " followed by the first ExcerptLen characters of the body
IsSynthesized(chars, self) ==
    LET head == <<"H", "T", "T", "P", " ">> \o Digits(self.status_code) \o <<":", " ">>
        rest == Len(chars) - Len(head)
    IN /\ rest >= 0
       /\ rest = Min(Len(self.text), ExcerptLen)
       /\ chars = head \o SubSeq(self.text, 1, rest)

\* C6: error_info is the field `error` when present and non-empty, otherwise the
\* field `msg` when present and non-empty (also when `error` is present but empty
\* or null), otherwise the status code with the first 200 characters of the body.
\* Stated for the bodies the claim is about: JSON objects and bodies without JSON.
C6_ErrorInfoThreeStepFallback ==
    (Built /\ (IsObject(raw) \/ raw.json.t = "JSONDecodeError")) =>
        LET error == FieldOf(raw, "error")
            msg == FieldOf(raw, "msg")
            got == error_info(resp)
        IN /\ got.exc = "none"
           /\ IF NonEmpty(error) THEN got.val = ToStr(error)
              ELSE IF NonEmpty(msg) THEN got.val = ToStr(msg)
              ELSE IsSynthesized(got.val, resp)

(***************************************************************************)
(* Two normalizations compared, under SpecPair.                            *)
(***************************************************************************)
BothBuilt ==
    /\ resp # PyNone /\ "exc" \notin DOMAIN resp
    /\ twin # PyNone /\ "exc" \notin DOMAIN twin

\* a non-empty JSON object or a body that is not JSON
NonEmptyObjectOrNoJson(response) ==
    \/ (IsObject(response) /\ DOMAIN response.json.d # {})
    \/ response.json.t = "JSONDecodeError"

BodyKind(self) ==
    IF ~Truthy(self.json_data) THEN "empty"
    ELSE IF self.json_data.t = "dict" THEN "object" ELSE "other"

Finished == pc \in { "returned", "raised" }

\* C7 as stated, for a client with the default retry_count: a call never makes
\* more than retry_count (3) attempts.
C7_AttemptsWithinRetryCount ==
    retry_count = DefaultRetryCount => attempts <= retry_count

\* C7 amended: a call never makes more than retry_count + 1 attempts (the first
\* try and at most retry_count retries), whatever sequence of retryable statuses
\* or connection failures the server produces.
C7_AttemptsWithinRetryCountPlusOne == attempts <= retry_count + 1

\* a client with the default retry_count 3 gives up after the 4th 503
C7_Witness ==
    /\ retry_count = DefaultRetryCount
    /\ pc = "raised" /\ raised = "RetryError"
    /\ attempts = DefaultRetryCount + 1
    /\ \A k \in DOMAIN history :
          history[k].kind = "response" /\ history[k].status = 503

\* the attempts so far are those of an endpoint that answers 503 on its first
\* n - 1 attempts and 200 on attempt n
AnswersOf503Then200(n) ==
    /\ Len(history) <= n
    /\ \A k \in DOMAIN history :
          /\ history[k].kind = "response"
          /\ history[k].status = (IF k < n THEN 503 ELSE 200)

\* C8: against an endpoint that answers 503 on the first N-1 attempts and 200 on
\* attempt N, 1 <= N <= retry_count, request returns a response with is_success
\* true after exactly N attempts.
C8_RecoversOnAttemptN ==
    \A n \in 1..retry_count :
        (Finished /\ AnswersOf503Then200(n))
            => (pc = "returned" /\ resp.is_success /\ attempts = n)

\* C8 for the methods of allowed_methods: the same, for GET, POST, PUT, DELETE.
C8_RecoversOnAttemptNForAllowedMethods ==
    \A n \in 1..retry_count :
        (Finished /\ AnswersOf503Then200(n) /\ method \in AllowedMethods)
            => (pc = "returned" /\ resp.is_success /\ attempts = n)

\* C9: an attempt answered with a status outside 429, 500, 502, 503, 504 ends the
\* call: it is the only attempt when it is the first, nothing is sent after it,
\* and request returns it as an APIResponse and raises nothing, for every method.
C9_OtherStatusesReturnAtOnce ==
    \A k \in DOMAIN history :
        (history[k].kind = "response" /\ history[k].status \notin StatusForcelist)
            => /\ k = Len(history)
               /\ pc = "returned"
               /\ raised = "none"
               /\ resp.status_code = history[k].status
               /\ (k = 1 => attempts = 1)

\* C10, for a client with the default retry_count: request raises only when the
\* connection cannot be established or the retry budget is exhausted; in every
\* other case it returns an APIResponse.
C10_RaisesOnlyOnConnectFailureOrExhaustion ==
    (retry_count = DefaultRetryCount /\ pc = "raised")
        => \/ IsExhausted(total)
           \/ history[Len(history)] = ConnectFailure

\* C11: every call of request gives control back to the caller, with an
\* APIResponse or with a raised exception, whatever the server and the network
\* do with the attempts: the retry loop does not run forever.
C11_RequestReturnsControl == (pc = "sending") ~> Finished

\* a client with retry_count 1 whose attempts all time out or cannot connect
\* raises after the second attempt
C11_Witness ==
    /\ retry_count = 1
    /\ pc = "raised"
    /\ attempts = 2
    /\ \A k \in DOMAIN history : history[k] \in { ConnectFailure, ReadFailure }

\* the cap MaxAttempts on the attempts followed is never what stops a call
C11_CapNotReached == pc = "sending" => attempts < MaxAttempts

(***************************************************************************)
(* What a call of a client method gives its caller: APIClient.request      *)
(* returns an APIResponse or raises (SpecRequest). A status of the         *)
(* forcelist is never returned for the methods used here, so a transport   *)
(* failure that is returned is a 404.                                      *)
(***************************************************************************)
Body_ok == PyDict([status |-> PyInt(0), msg |-> PyStr(S_ok)])
Body_bad == PyDict([status |-> PyInt(1), msg |-> PyStr(S_bad)])

Body_data == PyDict([data |-> PyList(<<PyInt(1)>>)])

\* business success on a 200, on a 404 and without a status field; business
\* failure on a 200 and on a 404; a 200 that is not JSON; a 200 whose JSON
\* document is an array
HarnessRaws ==
    { RawOf(200, Body_ok), RawOf(404, Body_ok), RawOf(200, Body_data),
      RawOf(200, Body_bad), RawOf(404, Body_bad),
      RawOf(200, JSONDecodeError), RawOf(200, PyList(<<PyInt(1)>>)) }

\* the requests.exceptions.RequestException classes request() re-raises
TransportExceptions == { "ConnectionError", "RetryError" }

CallOutcomes ==
    { Returned(APIResponse(r)) : r \in HarnessRaws }
    \cup { Raised(e) : e \in TransportExceptions }

\* an entry of the log of issued calls
Call(op, arg, outcome) == [op |-> op, arg |-> arg, outcome |-> outcome]

\* dict[key] = value
DictSet(dict, key, value) ==
    [k \in DOMAIN dict \cup { key } |-> IF k = key THEN value ELSE dict[k]]

(***************************************************************************)
(* BasicLibraryAPIClient.create_complete_workflow                          *)
(***************************************************************************)
\* the keys of `results`, in the order of the steps
WorkflowSteps == <<"basic_library", "datasource", "interface", "schedule">>

\* the client method each step calls
WorkflowOps ==
    [basic_library |-> "add_basic_library", datasource |-> "add_datasource",
     interface |-> "add_interface", schedule |-> "configure_schedule"]

\* schedule_config: left out (None), empty, or a configuration
ScheduleConfigs ==
    { PyNone, PyDict(EmptyDict), PyDict([name |-> PyStr(S_note)]) }

\* the steps in an order that creates the datasource before the library
NextStep_DatasourceFirst(step, config) ==
    CASE step = "idle" -> "datasource"
      [] step = "datasource" -> "basic_library"
      [] step = "basic_library" -> "interface"
      [] step = "interface" -> IF Truthy(config) THEN "schedule" ELSE "returned"
      [] step = "schedule" -> "returned"

\* the step that follows a step that business-succeeded: `if schedule_config:`
\* guards the last one
NextStep(step, config) ==
    CASE step = "idle" -> "basic_library"
      [] step = "basic_library" -> "datasource"
      [] step = "datasource" -> "interface"
      [] step = "interface" -> IF Truthy(config) THEN "schedule" ELSE "returned"
      [] step = "schedule" -> "returned"

\* create_complete_workflow(library_data, datasource_data, interface_data,
\* schedule_config) is called: results = {}
create_complete_workflow(config) ==
    /\ wf_pc = "idle"
    /\ wf_pc' = NextStep("idle", config)
    /\ schedule_config' = config
    /\ results' = EmptyDict
    /\ calls' = <<>>
    /\ UNCHANGED <<normalizerVars, clientVars, configVars, poolVars,
                   invalidVars, suiteVars, cleanupVars, healthVars,
                   runnerVars>>

\* results[step] = self.add_...(data); if not results[step].business_success:
\* return results. An exception of the call or of business_success propagates.
CreateStep(outcome) ==
    /\ wf_pc \in { "basic_library", "datasource", "interface" }
    /\ calls' = Append(calls, Call(WorkflowOps[wf_pc], PyNone, outcome))
    /\ IF outcome.exc # "none"
       THEN wf_pc' = "raised" /\ UNCHANGED results
       ELSE /\ results' = DictSet(results, wf_pc, outcome.val)
            /\ LET success == business_success(outcome.val)
               IN wf_pc' = IF success.exc # "none" THEN "raised"
                           ELSE IF ~success.val THEN "returned"
                           ELSE NextStep(wf_pc, schedule_config)
    /\ UNCHANGED schedule_config
    /\ UNCHANGED <<normalizerVars, clientVars, configVars, poolVars,
                   invalidVars, suiteVars, cleanupVars, healthVars,
                   runnerVars>>

\* results['schedule'] = self.configure_schedule(schedule_config); return results
ScheduleStep(outcome) ==
    /\ wf_pc = "schedule"
    /\ calls' = Append(calls, Call(WorkflowOps[wf_pc], PyNone, outcome))
    /\ IF outcome.exc # "none"
       THEN wf_pc' = "raised" /\ UNCHANGED results
       ELSE wf_pc' = "returned" /\ results' = DictSet(results, wf_pc, outcome.val)
    /\ UNCHANGED schedule_config
    /\ UNCHANGED <<normalizerVars, clientVars, configVars, poolVars,
                   invalidVars, suiteVars, cleanupVars, healthVars,
                   runnerVars>>

InitWorkflow ==
    /\ NormalizerIdle
    /\ retry_count = DefaultRetryCount
    /\ ClientIdle
    /\ HarnessIdle

NextWorkflow ==
    \/ \E config \in ScheduleConfigs : create_complete_workflow(config)
    \/ \E outcome \in CallOutcomes : CreateStep(outcome)
    \/ \E outcome \in CallOutcomes : ScheduleStep(outcome)

\* one call of create_complete_workflow
SpecWorkflow == InitWorkflow /\ [][NextWorkflow]_vars

(***************************************************************************)
(* Properties of create_complete_workflow, under SpecWorkflow.             *)
(***************************************************************************)
\* the call returned a response whose business_success is true
BusinessSucceeded(call) ==
    /\ call.outcome.exc = "none"
    /\ business_success(call.outcome.val) = Returned(TRUE)

\* the call returned a response whose business_success is false
BusinessFailed(call) ==
    /\ call.outcome.exc = "none"
    /\ business_success(call.outcome.val) = Returned(FALSE)

\* C12: the create calls are issued in the order library, datasource, interface,
\* schedule; no call is issued after one whose response has business_success
\* false; and the result map that is returned holds exactly the attempted
\* steps, a prefix of that order that ends at the first failed step or, with no
\* failed step, at the last step there is.
C12_WorkflowStopsAtFirstFailure ==
    /\ Len(calls) <= Len(WorkflowSteps)
    /\ \A k \in DOMAIN calls : calls[k].op = WorkflowOps[WorkflowSteps[k]]
    /\ \A k \in DOMAIN calls : k < Len(calls) => BusinessSucceeded(calls[k])
    /\ wf_pc = "returned" =>
          /\ DOMAIN results = { WorkflowSteps[k] : k \in DOMAIN calls }
          /\ \A k \in DOMAIN calls :
                results[WorkflowSteps[k]] = calls[k].outcome.val
          /\ \/ BusinessFailed(calls[Len(calls)])
             \/ Len(calls) = (IF Truthy(schedule_config) THEN 4 ELSE 3)

\* the library is created, the datasource is refused: the map holds these two
\* steps and nothing else was called
C12_Witness ==
    /\ wf_pc = "returned"
    /\ Len(calls) = 2
    /\ BusinessSucceeded(calls[1])
    /\ BusinessFailed(calls[2])
    /\ DOMAIN results = { "basic_library", "datasource" }
    /\ Truthy(schedule_config)

(***************************************************************************)
(* TestBasicLibraryWorkflow: the create steps test_01, test_02, test_04,   *)
(* each a create call followed by a listing that looks the new id up.      *)
(***************************************************************************)
S_test_lib == <<"t", "e", "s", "t", "_", "l", "i", "b", "_">>
S_test_ds == <<"t", "e", "s", "t", "_", "d", "s", "_">>
S_test_if == <<"t", "e", "s", "t", "_", "i", "f", "_">>
S_L1 == <<"L", "1">>
S_L2 == <<"L", "2">>

\* str(uuid.uuid4())[:8]
Tokens == { <<"3", "f", "2", "a", "9", "c", "1", "e">>,
            <<"0", "0", "0", "0", "0", "0", "0", "0">> }

\* the create tests in the order unittest runs them
CreateTests ==
    <<"test_01_create_basic_library", "test_02_create_data_source",
      "test_04_create_data_interface">>

\* per create test: the id it records, the ids it asserts first, the ids it
\* puts into its request, the calls it makes and the prefix of its synthetic id
CreateTest(test) ==
    CASE test = "test_01_create_basic_library" ->
            [id_key |-> "library_id", requires |-> {}, sends |-> {},
             add |-> "add_basic_library", list |-> "list_basic_libraries",
             prefix |-> S_test_lib, says_fixed |-> TRUE]
      [] test = "test_02_create_data_source" ->
            [id_key |-> "datasource_id", requires |-> { "library_id" },
             sends |-> { "library_id" },
             add |-> "add_datasource", list |-> "list_datasources",
             prefix |-> S_test_ds, says_fixed |-> FALSE]
      [] test = "test_04_create_data_interface" ->
            [id_key |-> "interface_id", requires |-> { "datasource_id" },
             sends |-> { "library_id", "datasource_id" },
             add |-> "add_interface", list |-> "list_interfaces",
             prefix |-> S_test_if, says_fixed |-> FALSE]

\* the recorded ids a test puts into its request
IdsSent(test) == [key \in test.sends |-> created_resources[key]]

\* f"test_lib_{self.test_id}"
SyntheticId(test, token) == PyStr(CreateTest(test).prefix \o token)

\* the first step of a test: a create test starts with its create call, any
\* other test with its one request
FirstStep(test) ==
    IF \E k \in DOMAIN CreateTests : CreateTests[k] = test
    THEN "create" ELSE "request"

\* where the suite goes after a test and its tearDown: the next selected test,
\* and after the last one tearDownClass, which does nothing without auto_cleanup
AfterTest(test) ==
    LET k == CHOOSE j \in DOMAIN selected : selected[j] = test
    IN IF k < Len(selected)
       THEN [test |-> selected[k + 1], step |-> FirstStep(selected[k + 1])]
       ELSE IF cleanup_config.auto_cleanup
       THEN [test |-> "none", step |-> "tearDownClass"]
       ELSE [test |-> "none", step |-> "done"]

\* where the suite goes after a test that failed or raised: tearDown calls
\* _cleanup_all_resources when cleanup_on_failure is set
AfterFailure(test) ==
    IF cleanup_config.cleanup_on_failure
    THEN [test |-> test, step |-> "tearDown"]
    ELSE AfterTest(test)

\* the `data` of a listing response
ListingData ==
    { Absent,
      PyList(<<PyDict([id |-> PyStr(S_L1)])>>),
      PyDict([total |-> PyInt(0)]),
      PyDict([list |-> PyList(<<>>)]),
      PyDict([list |-> PyList(<<PyDict([id |-> PyStr(S_L1)])>>)]),
      PyDict([list |-> PyList(<<PyDict([id |-> PyStr(S_L2)]),
                                PyDict([id |-> PyStr(S_L1)])>>)]),
      PyDict([list |-> PyList(<<PyDict([id |-> PyInt(7)])>>)]),
      PyDict([list |-> PyList(<<PyDict([name |-> PyStr(S_note)])>>)]),
      PyDict([list |-> PyList(<<PyInt(5)>>)]),
      PyDict([list |-> PyList(<<PyDict([id |-> PyNone])>>)]),
      PyDict([list |-> PyStr(S_L1)]) }

ListingBody(status, data) == ObjectOf([status |-> status, data |-> data])

\* a listing with one item, as `data`
OneItem == PyDict([list |-> PyList(<<PyDict([id |-> PyStr(S_L1)])>>)])

ListingRaws ==
    { RawOf(200, ListingBody(PyInt(0), data)) : data \in ListingData }
    \cup { RawOf(404, ListingBody(PyInt(0), OneItem)),
           RawOf(200, ListingBody(PyInt(1), OneItem)),
           RawOf(200, JSONDecodeError),
           RawOf(200, PyList(<<PyDict([id |-> PyStr(S_L1)])>>)) }

ListingOutcomes ==
    { Returned(APIResponse(r)) : r \in ListingRaws }
    \cup { Raised(e) : e \in TransportExceptions }

\* what print() is given, as the test and the kind of message
Message(test, text) == [test |-> test, text |-> text]

\* the body of the `try:` of a create test, up to the id it finds:
\*   [found |-> TRUE, id |-> ...]   data['list'][0]['id'] was evaluated
\*   [found |-> FALSE, why |-> "not_found" | "query_failed" | "query_error"]
LookupId(outcome) ==
    IF outcome.exc # "none" THEN [found |-> FALSE, why |-> "query_error"]
    ELSE LET response_query == outcome.val
             success == IF response_query.is_success
                        THEN business_success(response_query)
                        ELSE Returned(FALSE)
         IN IF success.exc # "none" THEN [found |-> FALSE, why |-> "query_error"]
            ELSE IF ~success.val THEN [found |-> FALSE, why |-> "query_failed"]
            ELSE LET data == business_data(response_query).val
                 IN IF data.t = "dict" /\ "list" \in DOMAIN data.d
                       /\ Truthy(data.d["list"])
                    THEN LET first == Subscript0(data.d["list"])
                             id == IF first.exc = "none"
                                   THEN SubscriptKey(first.val, "id") ELSE first
                         IN IF id.exc = "none"
                            THEN [found |-> TRUE, id |-> id.val]
                            ELSE [found |-> FALSE, why |-> "query_error"]
                    ELSE [found |-> FALSE, why |-> "not_found"]

\* setUpClass: the token of the run, no id recorded
setUpClass(token, tests, cleanup) ==
    /\ suite_pc = [test |-> "none", step |-> "idle"]
    /\ suite_pc' = [test |-> tests[1], step |-> FirstStep(tests[1])]
    /\ test_id' = token
    /\ selected' = tests
    /\ cleanup_config' = cleanup
    /\ created_resources' = NoResources
    /\ printed' = <<>>
    /\ verdicts' = EmptyDict
    /\ calls' = <<>>
    /\ UNCHANGED <<normalizerVars, clientVars, configVars, poolVars,
                   invalidVars, workflowVars, cleanupVars, healthVars,
                   runnerVars>>

\* a create test up to its lookup: assertIsNotNone on the ids it needs, the
\* create call, assertTrue(is_success), assertTrue(business_success)
CreateCall(outcome) ==
    /\ suite_pc.step = "create"
    /\ LET test == suite_pc.test
           missing == \E key \in CreateTest(test).requires :
                          created_resources[key] = PyNone
           success == IF outcome.exc = "none" THEN business_success(outcome.val)
                      ELSE outcome
       IN IF missing
          THEN /\ verdicts' = DictSet(verdicts, test, "failed")
               /\ suite_pc' = AfterFailure(test)
               /\ UNCHANGED calls
          ELSE /\ calls' = Append(calls, Call(CreateTest(test).add,
                                              IdsSent(CreateTest(test)), outcome))
               /\ IF outcome.exc # "none"
                  THEN /\ verdicts' = DictSet(verdicts, test, "error")
                       /\ suite_pc' = AfterFailure(test)
                  ELSE IF ~outcome.val.is_success
                  THEN /\ verdicts' = DictSet(verdicts, test, "failed")
                       /\ suite_pc' = AfterFailure(test)
                  ELSE IF success.exc # "none"
                  THEN /\ verdicts' = DictSet(verdicts, test, "error")
                       /\ suite_pc' = AfterFailure(test)
                  ELSE IF ~success.val
                  THEN /\ verdicts' = DictSet(verdicts, test, "failed")
                       /\ suite_pc' = AfterFailure(test)
                  ELSE /\ suite_pc' = [test |-> test, step |-> "lookup"]
                       /\ UNCHANGED verdicts
    /\ UNCHANGED <<test_id, created_resources, printed, selected, cleanup_config>>
    /\ UNCHANGED <<normalizerVars, clientVars, configVars, poolVars,
                   invalidVars, workflowVars, cleanupVars, healthVars,
                   runnerVars>>

\* the rest of a create test: the listing call in its try / except Exception,
\* the id recorded, the messages printed; the test passes
Lookup(outcome) ==
    /\ suite_pc.step = "lookup"
    /\ LET test == suite_pc.test
           got == LookupId(outcome)
           id == IF got.found THEN got.id ELSE SyntheticId(test, test_id)
           said == IF got.found THEN <<Message(test, "id_found")>>
                   ELSE IF got.why = "query_error" /\ CreateTest(test).says_fixed
                   THEN <<Message(test, "query_error"), Message(test, "using_fixed_id")>>
                   ELSE <<Message(test, got.why)>>
       IN /\ calls' = Append(calls, Call(CreateTest(test).list, PyNone, outcome))
          /\ created_resources' =
                [created_resources EXCEPT ![CreateTest(test).id_key] = id]
          /\ printed' = printed \o said \o <<Message(test, "created")>>
          /\ verdicts' = DictSet(verdicts, test, "passed")
          /\ suite_pc' = AfterTest(test)
    /\ UNCHANGED <<test_id, selected, cleanup_config>>
    /\ UNCHANGED <<normalizerVars, clientVars, configVars, poolVars,
                   invalidVars, workflowVars, cleanupVars, healthVars,
                   runnerVars>>

InitSuite ==
    /\ NormalizerIdle
    /\ retry_count = DefaultRetryCount
    /\ ClientIdle
    /\ HarnessIdle

NextSuite ==
    \/ \E token \in Tokens : setUpClass(token, CreateTests, NoCleanup)
    \/ \E outcome \in CallOutcomes : CreateCall(outcome)
    \/ \E outcome \in ListingOutcomes : Lookup(outcome)

\* the create steps of one run of the workflow suite
SpecSuite == InitSuite /\ [][NextSuite]_vars

(***************************************************************************)
(* Properties of the create steps, under SpecSuite.                        *)
(***************************************************************************)
\* the create step of the test succeeded: its create call passed both assertions
CreateSucceeded(test) ==
    \E k \in DOMAIN calls :
        /\ calls[k].op = CreateTest(test).add
        /\ calls[k].outcome.exc = "none"
        /\ calls[k].outcome.val.is_success
        /\ BusinessSucceeded(calls[k])

\* the test has made its listing call
LookedUp(test) == \E k \in DOMAIN calls : calls[k].op = CreateTest(test).list

\* the outcome of the listing call of the test
ListingOf(test) ==
    calls[CHOOSE k \in DOMAIN calls : calls[k].op = CreateTest(test).list].outcome

\* the listing succeeded, transport and business, and its data holds a
\* non-empty list
ListingHasItems(outcome) ==
    /\ outcome.exc = "none"
    /\ outcome.val.is_success
    /\ business_success(outcome.val) = Returned(TRUE)
    /\ business_data(outcome.val).val.t = "dict"
    /\ "list" \in DOMAIN business_data(outcome.val).val.d
    /\ business_data(outcome.val).val.d["list"].t = "list"
    /\ Len(business_data(outcome.val).val.d["list"].l) > 0

FirstItem(outcome) == business_data(outcome.val).val.d["list"].l[1]

\* the first item is malformed: no object, or an object without an id
Malformed(item) == item.t # "dict" \/ "id" \notin DOMAIN item.d

\* a message of the degraded path was printed by the test
DegradedMessage(test) ==
    \E k \in DOMAIN printed :
        /\ printed[k].test = test
        /\ printed[k].text \in { "not_found", "query_failed", "query_error" }

\* C13: after a create step succeeded and its lookup was made, the test has
\* passed and the recorded id is not null; it is the id of the first item of the
\* listing when the listing succeeded with a non-empty list of well-formed
\* items, and otherwise it is the synthetic id of the kind and the token of the
\* run, and a message of the degraded path was printed.
C13_RecordedIdNeverNull ==
    \A k \in DOMAIN CreateTests :
        LET test == CreateTests[k]
            id == created_resources[CreateTest(test).id_key]
        IN (CreateSucceeded(test) /\ LookedUp(test)) =>
              /\ verdicts[test] = "passed"
              /\ id # PyNone
              /\ IF ListingHasItems(ListingOf(test))
                    /\ ~Malformed(FirstItem(ListingOf(test)))
                 THEN id = FirstItem(ListingOf(test)).d["id"]
                 ELSE id = SyntheticId(test, test_id) /\ DegradedMessage(test)

\* the same without the demand that the id is not null: holds, so a null id is
\* the only way the claim fails
C13_RecordedIdOrSynthetic ==
    \A k \in DOMAIN CreateTests :
        LET test == CreateTests[k]
            id == created_resources[CreateTest(test).id_key]
        IN (CreateSucceeded(test) /\ LookedUp(test)) =>
              /\ verdicts[test] = "passed"
              /\ IF ListingHasItems(ListingOf(test))
                    /\ ~Malformed(FirstItem(ListingOf(test)))
                 THEN id = FirstItem(ListingOf(test)).d["id"]
                 ELSE id = SyntheticId(test, test_id) /\ DegradedMessage(test)

(***************************************************************************)
(* Cleanup: TestCleaner.cleanup_all, and cleanup_test_data as the workflow *)
(* suite calls it from _cleanup_all_resources.                             *)
(***************************************************************************)
\* the resources registered with a TestCleaner, over all kinds
MaxRegistered == 3

ResourceIds == { PyStr(S_L1), PyStr(S_L2) }

\* {'id': ..., 'data': ...}
Registration(id) == [id |-> id, data |-> PyDict([name |-> id])]

\* a deletion succeeds, is refused, answers a JSON array, cannot connect
DeleteOutcomes ==
    { Returned(APIResponse(RawOf(200, Body_ok))),
      Returned(APIResponse(RawOf(200, Body_bad))),
      Returned(APIResponse(RawOf(200, PyList(<<PyInt(1)>>)))),
      Raised("ConnectionError") }

\* cleanup_all with the libraries deleted first
CleanerOrder_LibrariesFirst == <<"basic_libraries", "datasources", "interfaces">>

\* cleanup_all: _cleanup_interfaces, _cleanup_datasources, _cleanup_basic_libraries
CleanerOrder == <<"interfaces", "datasources", "basic_libraries">>

\* the client method each loop calls
CleanerOp ==
    [interfaces |-> "delete_interface", datasources |-> "delete_datasource",
     basic_libraries |-> "delete_basic_library"]

\* cleanup_test_data: `if interface_id:`, `if datasource_id:`, `if library_id:`
SuiteCleanupOrder == <<"interface_id", "datasource_id", "library_id">>

SuiteCleanupOp ==
    [interface_id |-> "delete_interface", datasource_id |-> "delete_datasource",
     library_id |-> "delete_basic_library"]

\* the keys of the results of cleanup_test_data
SuiteCleanupKey ==
    [interface_id |-> "delete_interface", datasource_id |-> "delete_datasource",
     library_id |-> "delete_library"]

NumRegistered(reg) ==
    Len(reg.basic_libraries) + Len(reg.datasources) + Len(reg.interfaces)

RECURSIVE CleanerFrom(_, _, _)
\* where the loops of cleanup_all are from item i of loop k on: the next item
\* there is, or done
CleanerFrom(reg, k, i) ==
    IF k > Len(CleanerOrder) THEN [phase |-> "done", index |-> 1]
    ELSE IF i <= Len(reg[CleanerOrder[k]]) THEN [phase |-> CleanerOrder[k], index |-> i]
    ELSE CleanerFrom(reg, k + 1, 1)

RECURSIVE SuiteCleanupFrom(_, _)
\* the next `if ..._id:` of cleanup_test_data that holds, from step k on
SuiteCleanupFrom(ids, k) ==
    IF k > Len(SuiteCleanupOrder) THEN "done"
    ELSE IF Truthy(ids[SuiteCleanupOrder[k]]) THEN SuiteCleanupOrder[k]
    ELSE SuiteCleanupFrom(ids, k + 1)

IndexIn(seq, x) == CHOOSE k \in DOMAIN seq : seq[k] = x

\* a record of the logger: level and the id of the resource
Log(level, id) == [level |-> level, id |-> id]

\* TestCleaner.register_basic_library
register_basic_library(id) ==
    /\ cleanup_pc.proc = "none"
    /\ NumRegistered(registered) < MaxRegistered
    /\ registered' = [registered EXCEPT !.basic_libraries = Append(@, Registration(id))]
    /\ UNCHANGED <<cleanup_pc, cleanup_index, calls>>
    /\ UNCHANGED <<normalizerVars, clientVars, configVars, poolVars,
                   invalidVars, workflowVars, suiteVars, healthVars,
                   runnerVars>>

\* TestCleaner.register_datasource
register_datasource(id) ==
    /\ cleanup_pc.proc = "none"
    /\ NumRegistered(registered) < MaxRegistered
    /\ registered' = [registered EXCEPT !.datasources = Append(@, Registration(id))]
    /\ UNCHANGED <<cleanup_pc, cleanup_index, calls>>
    /\ UNCHANGED <<normalizerVars, clientVars, configVars, poolVars,
                   invalidVars, workflowVars, suiteVars, healthVars,
                   runnerVars>>

\* TestCleaner.register_interface
register_interface(id) ==
    /\ cleanup_pc.proc = "none"
    /\ NumRegistered(registered) < MaxRegistered
    /\ registered' = [registered EXCEPT !.interfaces = Append(@, Registration(id))]
    /\ UNCHANGED <<cleanup_pc, cleanup_index, calls>>
    /\ UNCHANGED <<normalizerVars, clientVars, configVars, poolVars,
                   invalidVars, workflowVars, suiteVars, healthVars,
                   runnerVars>>

\* TestCleaner.cleanup_all is called
cleanup_all ==
    /\ cleanup_pc.proc = "none"
    /\ cleanup_pc' = [proc |-> "cleanup_all",
                      phase |-> CleanerFrom(registered, 1, 1).phase]
    /\ cleanup_index' = CleanerFrom(registered, 1, 1).index
    /\ calls' = <<>>
    /\ UNCHANGED registered
    /\ UNCHANGED <<normalizerVars, clientVars, configVars, poolVars,
                   invalidVars, workflowVars, suiteVars, healthVars,
                   runnerVars>>

\* one pass of the loop of _cleanup_interfaces / _cleanup_datasources /
\* _cleanup_basic_libraries: the delete call and its logging inside
\* try / except Exception, then the next item
CleanerDelete(outcome) ==
    /\ cleanup_pc.proc = "cleanup_all"
    /\ cleanup_pc.phase # "done"
    /\ LET item == registered[cleanup_pc.phase][cleanup_index]
           success == IF outcome.exc = "none" THEN business_success(outcome.val)
                      ELSE outcome
           level == IF success.exc # "none" THEN "error"
                    ELSE IF success.val THEN "info"
                    ELSE IF error_info(outcome.val).exc # "none" THEN "error"
                    ELSE "warning"
           next == CleanerFrom(registered, IndexIn(CleanerOrder, cleanup_pc.phase),
                               cleanup_index + 1)
       IN /\ calls' = Append(calls, Call(CleanerOp[cleanup_pc.phase], item.data, outcome))
          /\ printed' = Append(printed, Log(level, item.id))
          /\ cleanup_pc' = [proc |-> "cleanup_all", phase |-> next.phase]
          /\ cleanup_index' = next.index
    /\ UNCHANGED registered
    /\ UNCHANGED <<suite_pc, test_id, created_resources, verdicts, selected,
                   cleanup_config>>
    /\ UNCHANGED <<normalizerVars, clientVars, configVars, poolVars,
                   invalidVars, workflowVars, healthVars, runnerVars>>

\* _cleanup_all_resources calls cleanup_test_data with the recorded ids:
\* results = {}
cleanup_all_resources ==
    /\ cleanup_pc.proc = "none"
    /\ cleanup_pc' = [proc |-> "cleanup_test_data",
                      phase |-> SuiteCleanupFrom(created_resources, 1)]
    /\ results' = EmptyDict
    /\ calls' = <<>>
    /\ printed' = IF SuiteCleanupFrom(created_resources, 1) = "done"
                  THEN Append(printed, Log("print", PyStr(S_ok)))
                  ELSE printed
    /\ UNCHANGED <<registered, cleanup_index>>
    /\ UNCHANGED <<wf_pc, schedule_config>>
    /\ UNCHANGED <<suite_pc, test_id, created_resources, verdicts, selected,
                   cleanup_config>>
    /\ UNCHANGED <<normalizerVars, clientVars, configVars, poolVars,
                   invalidVars, healthVars, runnerVars>>

\* one step of cleanup_test_data: results[key] = self.delete_...({...}). An
\* exception leaves cleanup_test_data and is printed by the except Exception of
\* _cleanup_all_resources; the results are printed when cleanup_test_data returns.
SuiteDelete(outcome) ==
    /\ cleanup_pc.proc = "cleanup_test_data"
    /\ cleanup_pc.phase # "done"
    /\ LET key == cleanup_pc.phase
           next == SuiteCleanupFrom(created_resources,
                                    IndexIn(SuiteCleanupOrder, key) + 1)
       IN /\ calls' = Append(calls, Call(SuiteCleanupOp[key], created_resources[key],
                                        outcome))
          /\ IF outcome.exc # "none"
             THEN /\ cleanup_pc' = [proc |-> "cleanup_test_data", phase |-> "done"]
                  /\ printed' = Append(printed, Log("print", PyStr(S_err)))
                  /\ UNCHANGED results
             ELSE /\ cleanup_pc' = [proc |-> "cleanup_test_data", phase |-> next]
                  /\ results' = DictSet(results, SuiteCleanupKey[key], outcome.val)
                  /\ printed' = IF next = "done"
                                THEN Append(printed, Log("print", PyStr(S_ok)))
                                ELSE printed
    /\ UNCHANGED <<registered, cleanup_index>>
    /\ UNCHANGED <<wf_pc, schedule_config>>
    /\ UNCHANGED <<suite_pc, test_id, created_resources, verdicts, selected,
                   cleanup_config>>
    /\ UNCHANGED <<normalizerVars, clientVars, configVars, poolVars,
                   invalidVars, healthVars, runnerVars>>

\* the ids the suite may have recorded when its cleanup runs
RecordedIds == { PyNone, PyStr(S_L1) }

InitCleanup ==
    /\ NormalizerIdle
    /\ retry_count = DefaultRetryCount
    /\ ClientIdle
    /\ calls = <<>>
    /\ WorkflowIdle
    /\ suite_pc = [test |-> "none", step |-> "done"]
    /\ test_id = CHOOSE token \in Tokens : TRUE
    /\ created_resources \in [library_id : RecordedIds, datasource_id : RecordedIds,
                               interface_id : RecordedIds]
    /\ printed = <<>>
    /\ verdicts = <<>>
    /\ selected = <<>>
    /\ cleanup_config = NoCleanup
    /\ CleanupIdle
    /\ HealthIdle
    /\ RunnerIdle
    /\ ConfigIdle
    /\ PoolIdle
    /\ InvalidIdle

NextCleanup ==
    \/ \E id \in ResourceIds : register_basic_library(id)
    \/ \E id \in ResourceIds : register_datasource(id)
    \/ \E id \in ResourceIds : register_interface(id)
    \/ cleanup_all
    \/ \E outcome \in DeleteOutcomes : CleanerDelete(outcome)
    \/ cleanup_all_resources
    \/ \E outcome \in DeleteOutcomes : SuiteDelete(outcome)

\* resources are registered, then one cleanup runs
SpecCleanup == InitCleanup /\ [][NextCleanup]_vars

(***************************************************************************)
(* Properties of the cleanup, under SpecCleanup.                           *)
(***************************************************************************)
\* interface deletions come first, library deletions last
DeletionRank(op) ==
    CASE op = "delete_interface" -> 1
      [] op = "delete_datasource" -> 2
      [] op = "delete_basic_library" -> 3

\* C14: in a cleanup run, by TestCleaner.cleanup_all or by cleanup_test_data,
\* every interface deletion is issued before any datasource deletion and every
\* datasource deletion before any library deletion, whatever was registered
\* and in whatever order.
C14_DeletionsInDependencyOrder ==
    \A j, k \in DOMAIN calls :
        j < k => DeletionRank(calls[j].op) <= DeletionRank(calls[k].op)

\* cleanup_all has deleted a registered interface, then a datasource, then a
\* library
C14_Witness ==
    /\ cleanup_pc = [proc |-> "cleanup_all", phase |-> "done"]
    /\ Len(registered.basic_libraries) = 1
    /\ Len(registered.datasources) = 1
    /\ Len(registered.interfaces) = 1
    /\ Len(calls) = 3
    /\ calls[1].op = "delete_interface"
    /\ calls[2].op = "delete_datasource"
    /\ calls[3].op = "delete_basic_library"

\* cleanup_test_data has deleted the interface, then the datasource, then the
\* library of the suite
C14_WitnessSuite ==
    /\ cleanup_pc = [proc |-> "cleanup_test_data", phase |-> "done"]
    /\ Len(calls) = 3
    /\ calls[1].op = "delete_interface"
    /\ calls[3].op = "delete_basic_library"

\* the deletion failed: it raised, or its response is no business success
DeletionFailed(call) == ~BusinessSucceeded(call)

\* the resources a finished cleanup run had to delete
ToDelete ==
    IF cleanup_pc.proc = "cleanup_all" THEN NumRegistered(registered)
    ELSE Cardinality({ key \in DOMAIN created_resources :
                          Truthy(created_resources[key]) })

\* C15: when a cleanup run has ended, by TestCleaner.cleanup_all or by the
\* suite's cleanup through cleanup_test_data, the deletion of every resource it
\* had to delete was attempted, also when an earlier deletion failed by a
\* business failure or by a raised exception.
C15_RemainingDeletionsAttempted ==
    (cleanup_pc.proc # "none" /\ cleanup_pc.phase = "done")
        => Len(calls) = ToDelete

\* C15 for TestCleaner.cleanup_all alone
C15_CleanerAttemptsEveryDeletion ==
    (cleanup_pc = [proc |-> "cleanup_all", phase |-> "done"])
        => Len(calls) = NumRegistered(registered)

\* C15 for the suite, when the failed deletions are business failures only
C15_SuiteAttemptsAfterBusinessFailure ==
    (cleanup_pc = [proc |-> "cleanup_test_data", phase |-> "done"]
     /\ \A k \in DOMAIN calls : calls[k].outcome.exc = "none")
        => Len(calls) = ToDelete

(***************************************************************************)
(* BasicLibraryAPIClient.validate_workflow_health                          *)
(***************************************************************************)
\* the probes in the order they are made
HealthProbes == <<"library", "datasource", "interface">>

\* the client method of each probe and the key its status is stored under
HealthOp ==
    [library |-> "get_basic_library", datasource |-> "get_datasource_status",
     interface |-> "get_interface"]

HealthKey ==
    [library |-> "library_status", datasource |-> "datasource_status",
     interface |-> "interface_status"]

\* health_status as the function starts with it
InitialHealthStatus ==
    [library_status |-> "unknown", datasource_status |-> "unknown",
     interface_status |-> "unknown", overall_health |-> FALSE]

\* overall health that one healthy probe is enough for
OverallHealth_Any(status) ==
    \/ status.library_status = "healthy"
    \/ status.datasource_status = "healthy"
    \/ status.interface_status = "healthy"

\* all([library_status == 'healthy', datasource_status == 'healthy',
\*      interface_status == 'healthy'])
OverallHealth(status) ==
    /\ status.library_status = "healthy"
    /\ status.datasource_status = "healthy"
    /\ status.interface_status = "healthy"

\* validate_workflow_health(library_id, datasource_id, interface_id) is called
validate_workflow_health ==
    /\ health_pc = "idle"
    /\ health_pc' = HealthProbes[1]
    /\ health_status' = InitialHealthStatus
    /\ calls' = <<>>
    /\ UNCHANGED <<normalizerVars, clientVars, configVars, poolVars,
                   invalidVars, workflowVars, suiteVars, cleanupVars,
                   runnerVars>>

\* one probe: resp = self.get_...(id); if resp.business_success: status =
\* 'healthy'. After the last probe overall_health is set and health_status is
\* returned. An exception of the call or of business_success propagates.
Probe(outcome) ==
    /\ health_pc \in { HealthProbes[k] : k \in DOMAIN HealthProbes }
    /\ calls' = Append(calls, Call(HealthOp[health_pc], PyStr(S_L1), outcome))
    /\ LET success == IF outcome.exc = "none" THEN business_success(outcome.val)
                      ELSE outcome
           k == IndexIn(HealthProbes, health_pc)
           marked == IF success.exc = "none" /\ success.val
                     THEN [health_status EXCEPT ![HealthKey[health_pc]] = "healthy"]
                     ELSE health_status
       IN IF success.exc # "none"
          THEN health_pc' = "raised" /\ UNCHANGED health_status
          ELSE IF k < Len(HealthProbes)
          THEN health_pc' = HealthProbes[k + 1] /\ health_status' = marked
          ELSE /\ health_pc' = "returned"
               /\ health_status' =
                     [marked EXCEPT !.overall_health = OverallHealth(marked)]
    /\ UNCHANGED <<normalizerVars, clientVars, configVars, poolVars,
                   invalidVars, workflowVars, suiteVars, cleanupVars,
                   runnerVars>>

InitHealth ==
    /\ NormalizerIdle
    /\ retry_count = DefaultRetryCount
    /\ ClientIdle
    /\ HarnessIdle

NextHealth ==
    \/ validate_workflow_health
    \/ \E outcome \in CallOutcomes : Probe(outcome)

\* one call of validate_workflow_health
SpecHealth == InitHealth /\ [][NextHealth]_vars

(***************************************************************************)
(* Properties of validate_workflow_health, under SpecHealth.               *)
(***************************************************************************)
\* C16: in the health_status that validate_workflow_health returns, each status
\* is 'healthy' when its probe returned business_success true and 'unknown'
\* otherwise, and overall_health is true iff all three probes returned
\* business_success true.
C16_HealthReflectsProbes ==
    health_pc = "returned" =>
        /\ Len(calls) = Len(HealthProbes)
        /\ \A k \in DOMAIN HealthProbes :
              health_status[HealthKey[HealthProbes[k]]]
                = (IF BusinessSucceeded(calls[k]) THEN "healthy" ELSE "unknown")
        /\ health_status.overall_health
              = (\A k \in DOMAIN HealthProbes : BusinessSucceeded(calls[k]))

\* the library and the interface are healthy, the datasource is not: overall
\* health is false
C16_Witness ==
    /\ health_pc = "returned"
    /\ health_status = [library_status |-> "healthy", datasource_status |-> "unknown",
                        interface_status |-> "healthy", overall_health |-> FALSE]
    /\ BusinessFailed(calls[2])

\* all three probes business-succeed: overall health is true
C16_WitnessHealthy ==
    /\ health_pc = "returned"
    /\ health_status.overall_health
    /\ \A k \in DOMAIN calls : BusinessSucceeded(calls[k])

\* the probe was answered with a JSON object or without JSON, or it raised a
\* transport exception
ObjectOrNoJsonOrRaised(call) ==
    \/ call.outcome.exc # "none"
    \/ call.outcome.val.json_data.t \in { "dict", "NoneType" }

\* C17, for probes that are answered with a JSON object or without JSON or that
\* raise a transport exception: when a call of validate_workflow_health has
\* ended, all three probes were issued, whatever the outcome of the earlier
\* probes was.
C17_AllProbesIssued ==
    (health_pc \in { "returned", "raised" }
     /\ \A k \in DOMAIN calls : ObjectOrNoJsonOrRaised(calls[k]))
        => Len(calls) = Len(HealthProbes)

\* C17 for probes that return: business failures and transport failures that
\* come back as a response do not stop the probes
C17_AllProbesIssuedOnReturn ==
    (health_pc \in { "library", "datasource", "interface", "returned" })
        => /\ \A k \in DOMAIN calls : calls[k].outcome.exc = "none"
           /\ (health_pc = "returned" => Len(calls) = Len(HealthProbes))

(***************************************************************************)
(* TestBasicLibraryWorkflow: the whole suite. test_03, test_05, test_06,   *)
(* test_07 and test_08 assert the ids they need and make one request;      *)
(* tearDown cleans up after a test that did not succeed and tearDownClass  *)
(* after the last test.                                                    *)
(***************************************************************************)
S_sync_task == <<"s", "y", "n", "c", "_", "t", "a", "s", "k", "_">>

\* test_01 to test_08 in the order unittest runs them
WorkflowTests ==
    <<"test_01_create_basic_library", "test_02_create_data_source",
      "test_03_test_data_source_connection", "test_04_create_data_interface",
      "test_05_test_data_interface", "test_06_create_sync_task",
      "test_07_configure_schedule", "test_08_validate_workflow_health">>

AllIds == { "library_id", "datasource_id", "interface_id" }

\* the dependent tests with test_03 making its request without an assertion
DependentTest_NoAssert(test) ==
    CASE test = "test_03_test_data_source_connection" ->
            [requires |-> {}, sends |-> { "datasource_id" },
             op |-> "test_datasource"]
      [] test = "test_05_test_data_interface" ->
            [requires |-> { "interface_id" }, sends |-> { "interface_id" },
             op |-> "test_interface"]
      [] test = "test_06_create_sync_task" ->
            [requires |-> AllIds, sends |-> AllIds, op |-> "create_sync_task"]
      [] test = "test_07_configure_schedule" ->
            [requires |-> { "datasource_id" }, sends |-> { "datasource_id" },
             op |-> "configure_schedule"]
      [] test = "test_08_validate_workflow_health" ->
            [requires |-> AllIds, sends |-> AllIds,
             op |-> "validate_workflow_health"]

\* per test that creates no id the later tests need: the ids it asserts with
\* assertIsNotNone, the ids it puts into its request, the client method
DependentTest(test) ==
    CASE test = "test_03_test_data_source_connection" ->
            [requires |-> { "datasource_id" }, sends |-> { "datasource_id" },
             op |-> "test_datasource"]
      [] test = "test_05_test_data_interface" ->
            [requires |-> { "interface_id" }, sends |-> { "interface_id" },
             op |-> "test_interface"]
      [] test = "test_06_create_sync_task" ->
            [requires |-> AllIds, sends |-> AllIds, op |-> "create_sync_task"]
      [] test = "test_07_configure_schedule" ->
            [requires |-> { "datasource_id" }, sends |-> { "datasource_id" },
             op |-> "configure_schedule"]
      [] test = "test_08_validate_workflow_health" ->
            [requires |-> AllIds, sends |-> AllIds,
             op |-> "validate_workflow_health"]

\* what a request of the suite meets: success, a refusal on a 200, a 404
StepOutcomes ==
    { Returned(APIResponse(RawOf(200, Body_ok))),
      Returned(APIResponse(RawOf(200, Body_bad))),
      Returned(APIResponse(RawOf(404, Body_bad))) }

\* create_sync_task also answers with the task, or with data that is a list
SyncOutcomes ==
    StepOutcomes
    \cup { Returned(APIResponse(RawOf(200,
              ObjectOf([status |-> PyInt(0), data |-> PyDict([id |-> PyStr(S_L2)])])))),
           Returned(APIResponse(RawOf(200,
              ObjectOf([status |-> PyInt(0), data |-> PyList(<<PyInt(1)>>)])))) }

\* validate_workflow_health returns its dict or lets an exception through
HealthOutcomes ==
    { Returned(InitialHealthStatus),
      Returned([library_status |-> "healthy", datasource_status |-> "healthy",
                interface_status |-> "healthy", overall_health |-> TRUE]),
      Raised("ConnectionError") }

\* a listing gives the new item, an item whose id is null, or fails
StepListings ==
    { Returned(APIResponse(RawOf(200, ListingBody(PyInt(0), OneItem)))),
      Returned(APIResponse(RawOf(200, ListingBody(PyInt(0),
          PyDict([list |-> PyList(<<PyDict([id |-> PyNone])>>)]))))),
      Raised("ConnectionError") }

\* a deletion of the suite's cleanup succeeds or cannot connect
StepDeletes ==
    { Returned(APIResponse(RawOf(200, Body_ok))), Raised("ConnectionError") }

OutcomesOf(test) ==
    CASE test = "test_06_create_sync_task" -> SyncOutcomes
      [] test = "test_08_validate_workflow_health" -> HealthOutcomes
      [] OTHER -> StepOutcomes

\* test_06 after assertTrue(response.is_success): the sync task id it records,
\* or the exception of business_success, business_data or data.get
SyncTaskId(response) ==
    LET success == business_success(response)
        data == business_data(response)
        synthetic == PyStr(S_sync_task \o test_id)
    IN IF success.exc # "none" THEN success
       ELSE IF ~success.val THEN Returned(synthetic)
       ELSE IF data.exc # "none" THEN data
       ELSE IF ~Truthy(data.val) THEN Returned(synthetic)
       ELSE IF data.val.t # "dict" THEN Raised("AttributeError")
       ELSE Returned(DictGet(data.val, "id", synthetic))

\* the body of a dependent test after its request was answered: its verdict
RequestVerdict(test, outcome) ==
    IF outcome.exc # "none" THEN "error"
    ELSE IF test = "test_08_validate_workflow_health" THEN "passed"
    ELSE IF ~outcome.val.is_success THEN "failed"
    ELSE IF test = "test_06_create_sync_task"
            /\ SyncTaskId(outcome.val).exc # "none" THEN "error"
    ELSE IF business_success(outcome.val).exc # "none" THEN "error"
    ELSE IF business_message(outcome.val).exc # "none" THEN "error"
    ELSE "passed"

\* test_03, test_05, test_06, test_07, test_08: assertIsNotNone on the ids the
\* test names, its request, assertTrue(response.is_success); test_06 records
\* sync_task_id; the result is printed
DependentRequest(outcome) ==
    /\ suite_pc.step = "request"
    /\ outcome \in OutcomesOf(suite_pc.test)
    /\ LET test == suite_pc.test
           missing == \E key \in DependentTest(test).requires :
                          created_resources[key] = PyNone
           verdict == RequestVerdict(test, outcome)
       IN IF missing
          THEN /\ verdicts' = DictSet(verdicts, test, "failed")
               /\ suite_pc' = AfterFailure(test)
               /\ UNCHANGED <<calls, created_resources, printed>>
          ELSE /\ calls' = Append(calls, Call(DependentTest(test).op,
                                              IdsSent(DependentTest(test)), outcome))
               /\ verdicts' = DictSet(verdicts, test, verdict)
               /\ suite_pc' = IF verdict = "passed" THEN AfterTest(test)
                              ELSE AfterFailure(test)
               /\ created_resources' =
                     IF test = "test_06_create_sync_task" /\ outcome.exc = "none"
                        /\ outcome.val.is_success
                        /\ SyncTaskId(outcome.val).exc = "none"
                     THEN DictSet(created_resources, "sync_task_id",
                                  SyncTaskId(outcome.val).val)
                     ELSE created_resources
               /\ printed' = IF verdict = "passed"
                             THEN Append(printed, Message(test, "result"))
                             ELSE printed
    /\ UNCHANGED <<test_id, selected, cleanup_config>>
    /\ UNCHANGED <<normalizerVars, clientVars, configVars, poolVars, invalidVars,
                   workflowVars, cleanupVars, healthVars, runnerVars>>

\* _cleanup_all_resources: cleanup_test_data is called with library_id,
\* datasource_id and interface_id of created_resources
CleanupCall ==
    /\ cleanup_pc.proc = "none"
    /\ cleanup_pc' = [proc |-> "cleanup_test_data",
                      phase |-> SuiteCleanupFrom(created_resources, 1)]
    /\ results' = EmptyDict
    /\ printed' = IF SuiteCleanupFrom(created_resources, 1) = "done"
                  THEN Append(printed, Log("print", PyStr(S_ok)))
                  ELSE printed
    /\ UNCHANGED <<registered, cleanup_index, wf_pc, schedule_config, calls>>
    /\ UNCHANGED <<test_id, created_resources, verdicts, selected, cleanup_config>>
    /\ UNCHANGED <<normalizerVars, clientVars, configVars, poolVars, invalidVars,
                   healthVars, runnerVars>>

\* tearDown of a test that did not succeed, with cleanup_on_failure
tearDown ==
    /\ suite_pc.step = "tearDown"
    /\ suite_pc' = [test |-> suite_pc.test, step |-> "cleanup"]
    /\ CleanupCall

\* tearDownClass with auto_cleanup
tearDownClass ==
    /\ suite_pc.step = "tearDownClass"
    /\ suite_pc' = [test |-> "none", step |-> "cleanup"]
    /\ CleanupCall

\* _cleanup_all_resources has returned: the next test, or the end of the class
CleanupReturns ==
    /\ suite_pc.step = "cleanup"
    /\ cleanup_pc = [proc |-> "cleanup_test_data", phase |-> "done"]
    /\ cleanup_pc' = [proc |-> "none", phase |-> "idle"]
    /\ suite_pc' = IF suite_pc.test = "none" THEN [test |-> "none", step |-> "done"]
                   ELSE AfterTest(suite_pc.test)
    /\ UNCHANGED <<registered, cleanup_index, calls, workflowVars>>
    /\ UNCHANGED <<test_id, created_resources, printed, verdicts, selected,
                   cleanup_config>>
    /\ UNCHANGED <<normalizerVars, clientVars, configVars, poolVars, invalidVars,
                   healthVars, runnerVars>>

\* the cleanup section of the module configuration, as the suite reads it
CleanupConfigs ==
    { CleanupConfig(TRUE, TRUE), CleanupConfig(TRUE, FALSE), NoCleanup }

\* the token of the runs of the whole suite
StepsToken == CHOOSE token \in Tokens : TRUE

InitSteps ==
    /\ NormalizerIdle
    /\ retry_count = DefaultRetryCount
    /\ ClientIdle
    /\ HarnessIdle

NextSteps ==
    \/ \E cleanup \in CleanupConfigs : setUpClass(StepsToken, WorkflowTests, cleanup)
    \/ \E outcome \in StepOutcomes : CreateCall(outcome)
    \/ \E outcome \in StepListings : Lookup(outcome)
    \/ \E outcome \in SyncOutcomes \cup HealthOutcomes : DependentRequest(outcome)
    \/ tearDown
    \/ \E outcome \in StepDeletes : SuiteDelete(outcome)
    \/ CleanupReturns
    \/ tearDownClass

\* one run of the workflow suite, test_01 to test_08 and the cleanups
SpecSteps == InitSteps /\ [][NextSteps]_vars

(***************************************************************************)
(* Properties of the whole suite, under SpecSteps.                         *)
(***************************************************************************)
\* the requests that carry an id an earlier test recorded
DependentOps ==
    { "add_datasource", "test_datasource", "add_interface", "test_interface",
      "create_sync_task", "configure_schedule", "validate_workflow_health" }

\* the create test that records the id
Producer ==
    [library_id |-> "test_01_create_basic_library",
     datasource_id |-> "test_02_create_data_source",
     interface_id |-> "test_04_create_data_interface"]

\* the create test ran and did not pass: its assertion on an id, its create
\* call or one of the two assertions on the response failed
CreateFailed(test) == test \in DOMAIN verdicts /\ verdicts[test] # "passed"

\* C27: a dependent request (create datasource, test datasource, create
\* interface, test interface, create sync task, configure schedule, health
\* validation) is issued only with every id it carries non-null; library_id,
\* datasource_id and interface_id are non-null only after the create call of
\* the test that records them returned transport success and business success;
\* after a create test failed no request that carries its id is issued.
C27_DependentRequestsCarryIds ==
    /\ \A k \in DOMAIN calls :
          calls[k].op \in DependentOps =>
              \A key \in DOMAIN calls[k].arg : calls[k].arg[key] # PyNone
    /\ \A key \in AllIds :
          created_resources[key] # PyNone => CreateSucceeded(Producer[key])
    /\ \A key \in AllIds :
          CreateFailed(Producer[key]) =>
              \A k \in DOMAIN calls :
                  calls[k].op \in DependentOps => key \notin DOMAIN calls[k].arg

\* the library and the datasource were created, the create call of the
\* interface failed: no request that needs interface_id was made, and the
\* schedule, which needs datasource_id only, was configured
C27_Witness ==
    /\ suite_pc.step = "done"
    /\ CreateSucceeded("test_01_create_basic_library")
    /\ CreateSucceeded("test_02_create_data_source")
    /\ \E k \in DOMAIN calls : calls[k].op = "add_interface"
    /\ CreateFailed("test_04_create_data_interface")
    /\ \A k \in DOMAIN calls :
          calls[k].op \notin { "test_interface", "create_sync_task",
                               "validate_workflow_health" }
    /\ \E k \in DOMAIN calls : calls[k].op = "configure_schedule"

\* the class-level cleanup ran and cleanup_test_data returned its results
ClassCleanupReturned ==
    /\ suite_pc = [test |-> "none", step |-> "done"]
    /\ cleanup_config.auto_cleanup
    /\ printed # <<>>
    /\ "level" \in DOMAIN printed[Len(printed)]
    /\ printed[Len(printed)] = Log("print", PyStr(S_ok))

\* C25: with auto_cleanup, after the class-level cleanup every resource handle
\* that was recorded (library, datasource, interface, sync task) has had a
\* delete request issued for it.
C25_EveryRecordedHandleDeleted ==
    ClassCleanupReturned =>
        \A key \in DOMAIN created_resources :
            created_resources[key] # PyNone =>
                /\ key \in DOMAIN SuiteCleanupKey
                /\ SuiteCleanupKey[key] \in DOMAIN results

\* C25 for the three kinds cleanup_test_data knows
C25_LibraryDatasourceInterfaceDeleted ==
    ClassCleanupReturned =>
        \A key \in AllIds :
            created_resources[key] # PyNone =>
                SuiteCleanupKey[key] \in DOMAIN results

\* a sync task id is recorded and the class-level cleanup has deleted the
\* interface, the datasource and the library
C25_SyncTaskRecorded ==
    /\ ClassCleanupReturned
    /\ "sync_task_id" \in DOMAIN created_resources
    /\ DOMAIN results = { "delete_interface", "delete_datasource", "delete_library" }

(***************************************************************************)
(* TestBasicLibraryAPIs.test_add_basic_library_invalid_data: four invalid  *)
(* payloads, each in its own subTest.                                      *)
(***************************************************************************)
S_test == <<"t", "e", "s", "t">>
S_value == <<"v", "a", "l", "u", "e">>

\* invalid_data_cases
InvalidDataCases ==
    << PyDict(EmptyDict),
       PyDict([name_zh |-> PyStr(S_empty)]),
       PyDict([name_zh |-> PyStr(S_test), name_en |-> PyStr(S_empty)]),
       PyDict([name_zh |-> PyStr(S_test), name_en |-> PyStr(S_test),
               invalid_field |-> PyStr(S_value)]) >>

\* validation.expected_status_codes.client_error of the configuration: not set,
\* the list of the default configuration, a list of a configuration file
ConfiguredClientErrors ==
    { PyNone,
      PyList(<<PyInt(400), PyInt(401), PyInt(403), PyInt(404)>>),
      PyList(<<PyInt(400), PyInt(422)>>) }

\* validation_config.get('expected_status_codes', {}).get('client_error', [400])
ClientErrorCodes(configured) ==
    IF configured = PyNone THEN PyList(<<PyInt(400)>>) ELSE configured

\* the status codes of a list of the configuration
CodesIn(codes) == { IntOf(codes.l[k]) : k \in DOMAIN codes.l }

\* the statuses add_basic_library is answered with; the statuses of the retry
\* strategy are never returned
InvalidStatuses == { 200, 201, 400, 404, 422 }

InvalidOutcomes ==
    { Returned(APIResponse(RawOf(status, body))) :
          status \in InvalidStatuses, body \in { Body_ok, Body_bad } }
    \cup { Returned(APIResponse(RawOf(200, JSONDecodeError))),
           Returned(APIResponse(RawOf(200, PyList(<<PyInt(1)>>)))),
           Raised("ConnectionError") }

\* the body of the subTest with any allowed status accepted
CaseVerdict_AnyAllowedStatus(configured, outcome) ==
    IF outcome.exc # "none" THEN "error"
    ELSE IF outcome.val.status_code
               \notin CodesIn(ClientErrorCodes(configured)) \cup { 200 }
    THEN "failed"
    ELSE "accepted"

\* the body of the subTest: assertIn(status_code, client_error_codes + [200]);
\* if status_code == 200: assertFalse(business_success)
CaseVerdict(configured, outcome) ==
    IF outcome.exc # "none" THEN "error"
    ELSE IF outcome.val.status_code
               \notin CodesIn(ClientErrorCodes(configured)) \cup { 200 }
    THEN "failed"
    ELSE IF outcome.val.status_code # 200 THEN "accepted"
    ELSE IF business_success(outcome.val).exc # "none" THEN "error"
    ELSE IF business_success(outcome.val).val THEN "failed"
    ELSE "accepted"

\* setUpClass: validation_config is read from the configuration
InvalidSetUp(configured) ==
    /\ invalid_pc = 0
    /\ invalid_pc' = 1
    /\ client_error_codes' = configured
    /\ sub_verdicts' = <<>>
    /\ calls' = <<>>
    /\ UNCHANGED <<normalizerVars, clientVars, configVars, poolVars, workflowVars,
                   suiteVars, cleanupVars, healthVars, runnerVars>>

\* one pass of the loop: the subTest of the case; a failure or an error of a
\* subTest is recorded and the loop goes on
InvalidCase(outcome) ==
    /\ invalid_pc \in DOMAIN InvalidDataCases
    /\ calls' = Append(calls, Call("add_basic_library",
                                   InvalidDataCases[invalid_pc], outcome))
    /\ sub_verdicts' = Append(sub_verdicts, CaseVerdict(client_error_codes, outcome))
    /\ invalid_pc' = invalid_pc + 1
    /\ UNCHANGED client_error_codes
    /\ UNCHANGED <<normalizerVars, clientVars, configVars, poolVars, workflowVars,
                   suiteVars, cleanupVars, healthVars, runnerVars>>

InitInvalid ==
    /\ NormalizerIdle
    /\ retry_count = DefaultRetryCount
    /\ ClientIdle
    /\ HarnessIdle

NextInvalid ==
    \/ \E configured \in ConfiguredClientErrors : InvalidSetUp(configured)
    \/ \E outcome \in InvalidOutcomes : InvalidCase(outcome)

\* one run of test_add_basic_library_invalid_data
SpecInvalid == InitInvalid /\ [][NextInvalid]_vars

(***************************************************************************)
(* Properties of the invalid-data test, under SpecInvalid.                 *)
(***************************************************************************)
\* the response is transport-successful and business-successful
BothSuccessful(outcome) ==
    /\ outcome.exc = "none"
    /\ outcome.val.is_success
    /\ business_success(outcome.val) = Returned(TRUE)

\* the test passes: no subTest failed or raised
InvalidTestPasses ==
    \A k \in DOMAIN sub_verdicts : sub_verdicts[k] = "accepted"

\* C26: for each of the invalid payloads, the empty one included, the response
\* is accepted only if its status is a configured client-error code or it is a
\* 200 with business_success false; no accepted response is both
\* transport-successful and business-successful, and a response that is both
\* fails its case and with it the test.
C26_AcceptsOnlyClientErrorOrRefusal ==
    \A k \in DOMAIN sub_verdicts :
        LET outcome == calls[k].outcome
        IN /\ calls[k].arg = InvalidDataCases[k]
           /\ sub_verdicts[k] = "accepted" =>
                 /\ outcome.exc = "none"
                 /\ \/ outcome.val.status_code
                          \in CodesIn(ClientErrorCodes(client_error_codes))
                    \/ /\ outcome.val.status_code = 200
                       /\ business_success(outcome.val) = Returned(FALSE)
                 /\ ~BothSuccessful(outcome)
           /\ BothSuccessful(outcome) =>
                 sub_verdicts[k] = "failed" /\ ~InvalidTestPasses

\* the empty payload is answered 200 with business success and fails; a later
\* payload is refused on a 200 and another is answered with a configured code
C26_Witness ==
    /\ invalid_pc = Len(InvalidDataCases) + 1
    /\ calls[1].arg = PyDict(EmptyDict)
    /\ BothSuccessful(calls[1].outcome)
    /\ sub_verdicts[1] = "failed"
    /\ \E k \in DOMAIN sub_verdicts :
          /\ sub_verdicts[k] = "accepted"
          /\ calls[k].outcome.val.status_code = 200
    /\ \E k \in DOMAIN sub_verdicts :
          /\ sub_verdicts[k] = "accepted"
          /\ calls[k].outcome.val.status_code = 422

(***************************************************************************)
(* config/test_config.py: TestConfig. The dicts of the configuration are   *)
(* objects with an identity: dict.copy() is shallow and _deep_merge        *)
(* assigns into the dict it is given, so two names can hold one dict.      *)
(***************************************************************************)
\* a configuration string; the configuration code never looks inside one
Str(text) == PyStr(<<text>>)

\* a path, cut so that the file name the code searches for is one piece
DefaultConfigPath == <<"e2e_tests/config/", "test_config.json">>

\* the paths a common configuration is loaded from; the first is the default
ConfigPaths ==
    { DefaultConfigPath, <<"/ci/", "settings.json">>,
      <<"/ci/old_", "test_config.json", ".bak">> }

\* 'test_config.json' in config_path
ContainsDefaultName(config_path) ==
    \E k \in DOMAIN config_path : config_path[k] = "test_config.json"

\* os.path.join(self.base_dir, module_name, 'config.json')
ModulePath(module_name) == <<"e2e_tests/", module_name, "/config.json">>

\* TestConfig._get_default_common_config
_get_default_common_config ==
    PyDict(
      [ api |-> PyDict(
          [ base_url |-> Str("http://localhost:8080"),
            timeout |-> PyInt(30),
            retry_count |-> PyInt(3),
            headers |-> PyDict(("Content-Type" :> Str("application/json"))
                               @@ ("Accept" :> Str("application/json"))) ]),
        logging |-> PyDict(
          [ level |-> Str("INFO"),
            format |-> Str("%(asctime)s - %(name)s - %(levelname)s - %(message)s"),
            file |-> Str("e2e_test.log") ]),
        validation |-> PyDict(
          [ required_response_fields |-> PyDict(
              [ basic |-> PyList(<<Str("status"), Str("msg")>>),
                success |-> PyList(<<Str("status"), Str("msg"), Str("data")>>),
                error |-> PyList(<<Str("status"), Str("msg"), Str("error")>>) ]),
            expected_status_codes |-> PyDict(
              [ success |-> PyList(<<PyInt(200), PyInt(201)>>),
                client_error |-> PyList(<<PyInt(400), PyInt(401), PyInt(403),
                                          PyInt(404)>>),
                server_error |-> PyList(<<PyInt(500), PyInt(502), PyInt(503)>>) ]) ]),
        test_environment |-> PyDict(
          [ cleanup_on_failure |-> PyBool(TRUE),
            max_test_duration |-> PyInt(300),
            parallel_test_limit |-> PyInt(5) ]) ])

\* what a path names on disk: no file, a file open() refuses (PermissionError,
\* IsADirectoryError), a file that is not JSON, a file holding a JSON document
MissingFile == [kind |-> "missing"]
UnreadableFile == [kind |-> "unreadable"]
MalformedFile == [kind |-> "malformed"]
JsonFile(doc) == [kind |-> "json", doc |-> doc]

\* a common configuration file that sets a few keys
CommonDoc ==
    PyDict([ api |-> PyDict([ base_url |-> Str("http://datahub:8080"),
                              timeout |-> PyInt(30) ]),
             test_environment |-> PyDict([ cleanup_on_failure |-> PyBool(FALSE) ]) ])

\* the files a common configuration is loaded from
CommonFiles ==
    { MissingFile, UnreadableFile, MalformedFile, JsonFile(_get_default_common_config),
      JsonFile(CommonDoc), JsonFile(PyList(<<>>)) }

\* the modules whose configuration is asked for
Modules == { "basic-library", "iot" }

\* module configurations: overrides of api keys at depth one and two, new
\* sections, a string where the common configuration has an object
ModuleDocs ==
    { PyDict([ api |-> PyDict([ base_url |-> Str("http://basic-library:8080"),
                                api_prefix |-> Str("/basic-library"),
                                headers |-> PyDict("X-Module" :> Str("lib")) ]),
               cleanup |-> PyDict([ auto_cleanup |-> PyBool(TRUE) ]) ]),
      PyDict([ api |-> PyDict([ timeout |-> PyInt(60),
                                headers |-> PyDict([Accept |-> Str("text/plain")]) ]),
               test_environment |-> PyDict([ parallel_test_limit |-> PyInt(1) ]) ]),
      PyDict([ api |-> Str("off") ]),
      PyDict(EmptyDict) }

\* the files a module configuration is loaded from
ModuleFiles ==
    { MissingFile, UnreadableFile, MalformedFile, JsonFile(PyList(<<>>)) }
    \cup { JsonFile(doc) : doc \in ModuleDocs }

\* TestConfig._load_config: json.load of the file; FileNotFoundError gives the
\* default configuration if the path holds the default file name and {} if
\* not; JSONDecodeError gives {}; any other exception of open() is not caught
_load_config(config_path, file) ==
    CASE file.kind = "json" -> Returned(file.doc)
      [] file.kind = "missing" ->
            Returned(IF ContainsDefaultName(config_path)
                     THEN _get_default_common_config ELSE PyDict(EmptyDict))
      [] file.kind = "malformed" -> Returned(PyDict(EmptyDict))
      [] file.kind = "unreadable" -> Raised("PermissionError")

\* the dict that sits at a key path of a document, named by the document it
\* was loaded for and the path
Ref(doc, path) == [t |-> "ref", a |-> <<doc, path>>]

RECURSIVE DictPaths(_)
\* the key paths of a value at which a dict sits, <<>> for the value itself
DictPaths(v) ==
    IF v.t # "dict" THEN {}
    ELSE { <<>> } \cup UNION { { <<k>> \o p : p \in DictPaths(v.d[k]) } : k \in DOMAIN v.d }

RECURSIVE ValueAt(_, _)
\* v[k1][k2]...
ValueAt(v, path) ==
    IF path = <<>> THEN v ELSE ValueAt(v.d[Head(path)], Tail(path))

\* the dict objects json.load creates for a document
Objects(doc, value) ==
    [ a \in { <<doc, p>> : p \in DictPaths(value) } |->
        LET v == ValueAt(value, a[2])
        IN [ k \in DOMAIN v.d |->
               IF v.d[k].t = "dict" THEN Ref(doc, a[2] \o <<k>>) ELSE v.d[k] ] ]

RECURSIVE Deref(_, _)
\* the value a name holds, its dicts read from the heap
Deref(h, v) ==
    IF v.t = "ref" THEN PyDict([ k \in DOMAIN h[v.a] |-> Deref(h, h[v.a][k]) ]) ELSE v

\* self.common_config and the fresh dict of self.common_config.copy()
CommonRef == Ref("common", <<>>)
CopyRef == Ref("copy", <<>>)

\* a heap without the object a
Without(h, a) == [ b \in DOMAIN h \ { a } |-> h[b] ]

RECURSIVE _deep_merge(_, _, _, _)
\* TestConfig._deep_merge on the dicts base_dict and update_dict, for the keys
\* of update_dict still to do: it assigns into base_dict and, where both
\* values are dicts, into the dict base_dict holds there. The keys are distinct
\* and the dicts two keys reach are distinct, so the order does not matter.
_deep_merge(h, base_dict, update_dict, todo) ==
    IF todo = {} THEN h
    ELSE LET key == CHOOSE k \in todo : TRUE
             value == h[update_dict][key]
             h1 == IF key \in DOMAIN h[base_dict] /\ h[base_dict][key].t = "ref"
                      /\ value.t = "ref"
                   THEN _deep_merge(h, h[base_dict][key].a, value.a, DOMAIN h[value.a])
                   ELSE [h EXCEPT ![base_dict] = DictSet(@, key, value)]
         IN _deep_merge(h1, base_dict, update_dict, todo \ { key })

\* the names logging has a level for
LevelNames == { "DEBUG", "INFO", "WARNING", "ERROR", "CRITICAL" }

\* TestConfig._setup_logging raises: common_config.get and log_config.get need
\* dicts, getattr(logging, level) needs the name of a level
SetupLoggingRaises(common) ==
    \/ common.t # "dict"
    \/ /\ "logging" \in DOMAIN common.d
       /\ \/ common.d["logging"].t # "dict"
          \/ /\ "level" \in DOMAIN common.d["logging"].d
             /\ \A name \in LevelNames : common.d["logging"].d["level"] # Str(name)

\* TestConfig.__init__(config_file), `file` being what the path names on disk:
\* the common configuration is loaded from config_file if it is given and from
\* the default path if not, the module cache is emptied, logging is set up
TestConfigInit(config_file, file) ==
    LET path == IF config_file # NoPath THEN config_file ELSE DefaultConfigPath
        got == _load_config(path, file)
    IN /\ common_path' = path
       /\ common_file' = file
       /\ module_configs' = <<>>
       /\ merged' = NoMerged
       /\ IF got.exc # "none" \/ SetupLoggingRaises(got.val)
          THEN /\ config_pc' = "raised"
               /\ heap' = <<>>
               /\ loaded' = [common |-> PyNone, modules |-> <<>>]
          ELSE /\ config_pc' = "loaded"
               /\ heap' = Objects("common", got.val)
               /\ loaded' = [common |-> got.val, modules |-> <<>>]

\* config = TestConfig(config_file)
TestConfig(config_file, file) ==
    /\ config_pc = "unloaded"
    /\ TestConfigInit(config_file, file)
    /\ UNCHANGED <<normalizerVars, clientVars, calls, workflowVars, suiteVars,
                   cleanupVars, healthVars, runnerVars, poolVars, invalidVars>>

\* TestConfig.load_module_config followed by get_merged_config's
\* _deep_merge(self.common_config.copy(), module_config), as the heap it leaves
\* and the dict it returns:
\*   [exc |-> "none", heap, cache, value, module_value]  or  [exc |-> ..., heap, cache]
MergedConfig(module_name, file) ==
    LET cached == module_name \in DOMAIN module_configs
        got == IF cached THEN Returned(module_configs[module_name])
               ELSE _load_config(ModulePath(module_name), file)
    IN IF got.exc # "none"
       THEN [exc |-> got.exc, heap |-> heap, cache |-> module_configs]
       ELSE LET module_config ==
                    IF cached THEN got.val
                    ELSE IF got.val.t = "dict" THEN Ref(module_name, <<>>) ELSE got.val
                h1 == IF cached THEN heap ELSE heap @@ Objects(module_name, got.val)
                cache == IF cached THEN module_configs
                         ELSE module_configs @@ (module_name :> module_config)
                h2 == h1 @@ (CopyRef.a :> h1[CommonRef.a])
            IN IF module_config.t # "ref"
               THEN [exc |-> "AttributeError", heap |-> h1, cache |-> cache]
               ELSE LET h3 == _deep_merge(h2, CopyRef.a, module_config.a,
                                          DOMAIN h2[module_config.a])
                    IN [exc |-> "none", heap |-> Without(h3, CopyRef.a), cache |-> cache,
                        value |-> Deref(h3, CopyRef),
                        module_value |-> Deref(h1, module_config)]

\* the module configuration as json.load gave it, kept when it is first loaded
LoadedModules(module_name, file) ==
    IF module_name \in DOMAIN module_configs
          \/ _load_config(ModulePath(module_name), file).exc # "none"
    THEN loaded.modules
    ELSE loaded.modules @@ (module_name :> _load_config(ModulePath(module_name), file).val)

\* the files that matter to a call: none once the module is cached
FilesFor(module_name) ==
    IF module_name \in DOMAIN module_configs THEN { NoFile } ELSE ModuleFiles

\* what a call of get_merged_config / get_api_config_for_module leaves in the
\* TestConfig
ConfigAfter(module_name, file) ==
    /\ heap' = MergedConfig(module_name, file).heap
    /\ module_configs' = MergedConfig(module_name, file).cache
    /\ loaded' = [loaded EXCEPT !.modules = LoadedModules(module_name, file)]
    /\ UNCHANGED <<config_pc, common_path, common_file>>
    /\ UNCHANGED <<normalizerVars, clientVars, calls, workflowVars, suiteVars,
                   cleanupVars, healthVars, runnerVars, poolVars, invalidVars>>

\* TestConfig.get_merged_config(module_name); common_was and module_was are
\* the two configurations as they were when the call was made
get_merged_config(module_name, file) ==
    /\ config_pc = "loaded"
    /\ file \in FilesFor(module_name)
    /\ LET got == MergedConfig(module_name, file)
       IN merged' =
             IF got.exc # "none"
             THEN [module |-> module_name, exc |-> got.exc]
             ELSE [module |-> module_name, exc |-> "none", value |-> got.value,
                   common_was |-> Deref(heap, CommonRef),
                   module_was |-> got.module_value, api |-> PyNone]
    /\ ConfigAfter(module_name, file)

\* x.get(key, default) of a value that may not be a dict
GetOf(x, key, default) ==
    IF x.t = "dict" THEN Returned(DictGet(x, key, default)) ELSE Raised("AttributeError")

\* APIConfig(base_url=..., api_prefix=..., timeout=..., retry_count=...,
\* headers=...) from an `api` section and the defaults for what it lacks
APIConfigOf(api_config, defaults) ==
    IF api_config.t # "dict" THEN Raised("AttributeError")
    ELSE Returned([ base_url |-> DictGet(api_config, "base_url", defaults.base_url),
                    api_prefix |-> DictGet(api_config, "api_prefix", Str("")),
                    timeout |-> DictGet(api_config, "timeout", defaults.timeout),
                    retry_count |-> DictGet(api_config, "retry_count",
                                            defaults.retry_count),
                    headers |-> DictGet(api_config, "headers", defaults.headers) ])

\* the defaults of the property TestConfig.api
APIDefaults ==
    [ base_url |-> Str("http://localhost:8080"), timeout |-> PyInt(30),
      retry_count |-> PyInt(3), headers |-> PyDict(EmptyDict) ]

\* the property TestConfig.api, read from a common configuration
api(common) == APIConfigOf(DictGet(common, "api", PyDict(EmptyDict)), APIDefaults)

\* TestConfig.get_api_config_for_module(module_name): get_merged_config, then
\* the APIConfig of the merged `api` section with self.api for what it lacks
get_api_config_for_module(module_name, file) ==
    /\ config_pc = "loaded"
    /\ file \in FilesFor(module_name)
    /\ LET got == MergedConfig(module_name, file)
           common_now == Deref(got.heap, CommonRef)
           api_config == IF got.exc # "none" THEN got
                         ELSE IF api(common_now).exc # "none" THEN api(common_now)
                         ELSE APIConfigOf(DictGet(got.value, "api", PyDict(EmptyDict)),
                                          api(common_now).val)
       IN merged' =
             IF api_config.exc # "none"
             THEN [module |-> module_name, exc |-> api_config.exc]
             ELSE [module |-> module_name, exc |-> "none", value |-> got.value,
                   common_was |-> Deref(heap, CommonRef),
                   module_was |-> got.module_value, api |-> api_config.val]
    /\ ConfigAfter(module_name, file)

InitConfig ==
    /\ NormalizerIdle
    /\ retry_count = DefaultRetryCount
    /\ ClientIdle
    /\ HarnessIdle

NextConfig ==
    \/ \E config_file \in ConfigPaths \cup { NoPath }, file \in CommonFiles :
          TestConfig(config_file, file)
    \/ \E module_name \in Modules, file \in ModuleFiles \cup { NoFile } :
          get_merged_config(module_name, file)
    \/ \E module_name \in Modules, file \in ModuleFiles \cup { NoFile } :
          get_api_config_for_module(module_name, file)

\* a TestConfig is constructed and asked for merged configurations
SpecConfig == InitConfig /\ [][NextConfig]_vars

(***************************************************************************)
(* Properties of TestConfig, under SpecConfig.                             *)
(***************************************************************************)
RECURSIVE KeyPaths(_)
\* the key paths of a configuration: a.b.c as <<"a", "b", "c">>
KeyPaths(v) ==
    IF v.t # "dict" THEN {}
    ELSE UNION { { <<k>> } \cup { <<k>> \o p : p \in KeyPaths(v.d[k]) } : k \in DOMAIN v.d }

\* the longest part of a key path that is a key path of v has an object there
\* (or none of it is one): v sets nothing at or above the path
NotShadowed(path, v) ==
    \A n \in 1..(Len(path) - 1) :
        SubSeq(path, 1, n) \in KeyPaths(v) => ValueAt(v, SubSeq(path, 1, n)).t = "dict"

\* the module's value wins at the key paths both have, an object on both sides
\* being merged key by key; what only the common configuration has is kept
MergeOf(value, common, module) ==
    /\ \A p \in KeyPaths(common) \cap KeyPaths(module) :
           ~(ValueAt(common, p).t = "dict" /\ ValueAt(module, p).t = "dict")
              => p \in KeyPaths(value) /\ ValueAt(value, p) = ValueAt(module, p)
    /\ \A p \in KeyPaths(common) \ KeyPaths(module) :
           NotShadowed(p, module)
              => p \in KeyPaths(value) /\ ValueAt(value, p) = ValueAt(common, p)

\* C22: in the configuration get_merged_config(module) returns, every key path
\* that the common and the module configuration both have holds the module's
\* value, at every depth, and every key path only the common configuration has
\* keeps the common value.
C22_ModuleWinsCommonKept ==
    (merged # NoMerged /\ merged.exc = "none")
        => MergeOf(merged.value, loaded.common, loaded.modules[merged.module])

\* the same of the two configurations as they are when the call is made
C22_MergeOfCurrentConfigs ==
    (merged # NoMerged /\ merged.exc = "none")
        => MergeOf(merged.value, merged.common_was, merged.module_was)

\* C23: when the default common configuration file is missing or is not JSON,
\* TestConfig is constructed and its common configuration is the default
\* configuration.
C23_DefaultsWhenMissingOrMalformed ==
    (config_pc # "unloaded" /\ common_path = DefaultConfigPath
     /\ common_file \in { MissingFile, MalformedFile })
        => config_pc = "loaded" /\ loaded.common = _get_default_common_config

\* C23 for the missing file alone
C23_DefaultsWhenMissing ==
    (config_pc # "unloaded" /\ common_path = DefaultConfigPath
     /\ common_file = MissingFile)
        => config_pc = "loaded" /\ loaded.common = _get_default_common_config

\* C30: whatever merged configurations have been asked for, the common
\* configuration equals, at every depth, what was loaded.
C30_CommonConfigUnchanged ==
    config_pc = "loaded" => Deref(heap, CommonRef) = loaded.common

\* the top level of the common configuration is the copy's, and is kept: the
\* keys, and the values that are no objects
C30_TopLevelKept ==
    config_pc = "loaded" =>
        /\ DOMAIN heap[CommonRef.a] = DOMAIN loaded.common.d
        /\ \A k \in DOMAIN loaded.common.d :
              loaded.common.d[k].t # "dict" => heap[CommonRef.a][k] = loaded.common.d[k]

\* the merged configuration of the module iot asked for after that of the module
\* basic-library, over the common file CommonDoc
AliasedAcrossModules ==
      /\ merged # NoMerged /\ merged.exc = "none" /\ merged.module = "iot"
      /\ loaded.common = CommonDoc
      /\ "basic-library" \in DOMAIN loaded.modules
      /\ loaded.modules["iot"] \in ModuleDocs /\ loaded.modules["iot"].d # EmptyDict
      /\ loaded.modules["iot"].d["api"].t = "dict"
      /\ "headers" \in DOMAIN loaded.modules["iot"].d["api"].d
      /\ "timeout" \in DOMAIN loaded.modules["iot"].d["api"].d
      /\ loaded.modules["basic-library"] \in ModuleDocs
      /\ loaded.modules["basic-library"].d # EmptyDict
      /\ loaded.modules["basic-library"].d["api"].t = "dict"
      /\ "api_prefix" \in DOMAIN loaded.modules["basic-library"].d["api"].d
      /\ merged.value.d["api"].d["headers"] =
            PyDict(("X-Module" :> Str("lib")) @@ ("Accept" :> Str("text/plain")))
      /\ merged.value.d["api"].d["base_url"] = Str("http://basic-library:8080")
      /\ Deref(heap, module_configs["basic-library"]).d["api"].d["headers"] =
            PyDict(("X-Module" :> Str("lib")) @@ ("Accept" :> Str("text/plain")))

(***************************************************************************)
(* run_tests.py: main() from its try block on, with TestRunner.run_tests   *)
(* and TestRunner.generate_report.                                         *)
(***************************************************************************)
\* the tests a run executes
MaxTests == 3

\* what unittest records in its TestResult, one event after the other: a test
\* that passes, fails, raises or is skipped; a setUpClass that raises, which
\* adds an entry to `errors` and runs no test of the class; a test two of whose
\* subTests fail, which adds two entries to `failures`
TestOutcomes == { "pass", "fail", "error", "skip", "class_error", "subtests_fail" }

\* test_result.testsRun
TestsRun(outcomes) ==
    Cardinality({ k \in DOMAIN outcomes : outcomes[k] # "class_error" })

\* the entries an event adds to test_result.failures ("fail"), .errors
\* ("error") or .skipped ("skip")
EntriesOf(outcome, kind, k) ==
    LET entry == [test |-> k, traceback |-> kind]
    IN CASE outcome = kind -> <<entry>>
         [] outcome = "subtests_fail" /\ kind = "fail" -> <<entry, entry>>
         [] outcome = "class_error" /\ kind = "error" -> <<entry>>
         [] OTHER -> <<>>

\* test_result.failures / errors / skipped from event k on, in the order
\* run_tests appends them
RECURSIVE Collected(_, _, _)
Collected(outcomes, kind, k) ==
    IF k > Len(outcomes) THEN <<>>
    ELSE EntriesOf(outcomes[k], kind, k) \o Collected(outcomes, kind, k + 1)

\* len() of test_result.failures / errors / skipped
CountOf(outcomes, kind) == Len(Collected(outcomes, kind, 1))

\* a float that is a quotient of integers, kept as the quotient
Rational(num, den) == [num |-> num, den |-> den]

\* two quotients are the same number
RatEq(x, y) == x.num * y.den = y.num * x.den

\* passed_tests / total_tests, not multiplied
success_rate_Ratio(self) ==
    IF self.total_tests = 0 THEN Rational(0, 1)
    ELSE Rational(self.passed_tests, self.total_tests)

\* TestResult.success_rate: (passed_tests / total_tests) * 100, and 0.0 when
\* no test ran
success_rate(self) ==
    IF self.total_tests = 0 THEN Rational(0, 1)
    ELSE Rational(self.passed_tests * 100, self.total_tests)

\* TestResult.to_dict
to_dict(self) ==
    [ start_time |-> self.start_time, end_time |-> self.end_time,
      total_tests |-> self.total_tests, passed_tests |-> self.passed_tests,
      failed_tests |-> self.failed_tests, error_tests |-> self.error_tests,
      skipped_tests |-> self.skipped_tests, success_rate |-> success_rate(self),
      failures |-> self.failures, errors |-> self.errors,
      test_details |-> self.test_details ]

\* an exit code that looks at the failures only
ExitCode_FailuresOnly(self) == IF self.failed_tests > 0 THEN 1 ELSE 0

\* if result.failed_tests > 0 or result.error_tests > 0: sys.exit(1)
\* else: sys.exit(0)
ExitCode(self) == IF self.failed_tests > 0 \/ self.error_tests > 0 THEN 1 ELSE 0

\* main(), `if args.config_file:` before the try block:
\* config = TestConfig(args.config_file). An exception of TestConfig is not
\* caught: the process ends with a traceback and the exit code 1.
ConfigOverride(config_file, file) ==
    /\ runner_pc = "idle"
    /\ config_pc = "unloaded"
    /\ config_file # NoPath
    /\ TestConfigInit(config_file, file)
    /\ IF config_pc' = "raised"
       THEN runner_pc' = "crashed" /\ exit_code' = 1
       ELSE UNCHANGED <<runner_pc, exit_code>>
    /\ UNCHANGED <<executed, result, report>>
    /\ UNCHANGED <<normalizerVars, clientVars, poolVars, invalidVars, calls,
                   workflowVars, suiteVars, cleanupVars, healthVars>>

\* the try block is entered and the tests are discovered; run_tests begins and
\* sets start_time. An exception of the discovery is caught by except
\* Exception: sys.exit(1).
Discover(ok) ==
    /\ runner_pc = "idle"
    /\ IF ok
       THEN /\ runner_pc' = "running"
            /\ result' = [result EXCEPT !.start_time = "datetime"]
            /\ UNCHANGED exit_code
       ELSE /\ runner_pc' = "aborted"
            /\ exit_code' = 1
            /\ UNCHANGED result
    /\ UNCHANGED <<executed, report>>
    /\ UNCHANGED <<normalizerVars, clientVars, configVars, poolVars,
                   invalidVars, calls, workflowVars, suiteVars, cleanupVars,
                   healthVars>>

\* runner.run(test_suite) executes one more test
RunTest(outcome) ==
    /\ runner_pc = "running"
    /\ Len(executed) < MaxTests
    /\ executed' = Append(executed, outcome)
    /\ UNCHANGED <<runner_pc, result, report, exit_code>>
    /\ UNCHANGED <<normalizerVars, clientVars, configVars, poolVars,
                   invalidVars, calls, workflowVars, suiteVars, cleanupVars,
                   healthVars>>

\* run_tests raises: caught by except Exception: sys.exit(1)
RunRaises ==
    /\ runner_pc = "running"
    /\ runner_pc' = "aborted"
    /\ exit_code' = 1
    /\ UNCHANGED <<executed, result, report>>
    /\ UNCHANGED <<normalizerVars, clientVars, configVars, poolVars,
                   invalidVars, calls, workflowVars, suiteVars, cleanupVars,
                   healthVars>>

\* run_tests after runner.run returned: end_time, the counts, the failures and
\* the errors; test_details is left as it is
run_tests ==
    /\ runner_pc = "running"
    /\ runner_pc' = "ran"
    /\ result' =
          [result EXCEPT
             !.end_time = "datetime",
             !.total_tests = TestsRun(executed),
             !.failed_tests = CountOf(executed, "fail"),
             !.error_tests = CountOf(executed, "error"),
             !.skipped_tests = CountOf(executed, "skip"),
             !.passed_tests = TestsRun(executed) - CountOf(executed, "fail")
                              - CountOf(executed, "error") - CountOf(executed, "skip"),
             !.failures = @ \o Collected(executed, "fail", 1),
             !.errors = @ \o Collected(executed, "error", 1)]
    /\ UNCHANGED <<executed, report, exit_code>>
    /\ UNCHANGED <<normalizerVars, clientVars, configVars, poolVars,
                   invalidVars, calls, workflowVars, suiteVars, cleanupVars,
                   healthVars>>

\* generate_report: json.dump of test_info and result.to_dict() into the file.
\* An exception (the file cannot be opened or written) is caught by except
\* Exception: sys.exit(1).
generate_report(ok) ==
    /\ runner_pc = "ran"
    /\ IF ok
       THEN /\ runner_pc' = "reported"
            /\ report' = [written |-> TRUE, test_results |-> to_dict(result)]
            /\ UNCHANGED exit_code
       ELSE /\ runner_pc' = "aborted"
            /\ exit_code' = 1
            /\ UNCHANGED report
    /\ UNCHANGED <<executed, result>>
    /\ UNCHANGED <<normalizerVars, clientVars, configVars, poolVars,
                   invalidVars, calls, workflowVars, suiteVars, cleanupVars,
                   healthVars>>

\* sys.exit(1) or sys.exit(0) by the result
Exit ==
    /\ runner_pc = "reported"
    /\ runner_pc' = "exited"
    /\ exit_code' = ExitCode(result)
    /\ UNCHANGED <<executed, result, report>>
    /\ UNCHANGED <<normalizerVars, clientVars, configVars, poolVars,
                   invalidVars, calls, workflowVars, suiteVars, cleanupVars,
                   healthVars>>

InitRunner ==
    /\ NormalizerIdle
    /\ retry_count = DefaultRetryCount
    /\ ClientIdle
    /\ HarnessIdle

NextRunner ==
    \/ \E config_file \in ConfigPaths, file \in CommonFiles :
          ConfigOverride(config_file, file)
    \/ \E ok \in BOOLEAN : Discover(ok)
    \/ \E outcome \in TestOutcomes : RunTest(outcome)
    \/ RunRaises
    \/ run_tests
    \/ \E ok \in BOOLEAN : generate_report(ok)
    \/ Exit

\* one run of the runner
SpecRunner == InitRunner /\ [][NextRunner]_vars

(***************************************************************************)
(* Properties of the runner, under SpecRunner.                             *)
(***************************************************************************)
\* the events that add to failures or to errors
FailingOutcomes == { "fail", "error", "class_error", "subtests_fail" }

\* the process has exited
Exited == runner_pc \in { "exited", "aborted" }

\* C18: the exit code is 0 only if the run finished with failed_tests = 0 and
\* error_tests = 0; it is 1 when a test failed or errored and when discovery,
\* execution or report generation raised.
C18_ExitCodeReflectsRun ==
    Exited =>
        /\ exit_code \in { 0, 1 }
        /\ exit_code = 0 =>
              /\ runner_pc = "exited"
              /\ result.end_time # "None"
              /\ result.failed_tests = 0 /\ result.error_tests = 0
              /\ \A k \in DOMAIN executed : executed[k] \notin FailingOutcomes
        /\ (\E k \in DOMAIN executed : executed[k] \in FailingOutcomes)
              => exit_code = 1
        /\ runner_pc = "aborted" => exit_code = 1

\* a run of three tests with one error and no failure exits with 1
C18_Witness ==
    /\ runner_pc = "exited"
    /\ exit_code = 1
    /\ executed = <<"pass", "error", "skip">>
    /\ result.failed_tests = 0

\* a run whose tests passed or were skipped exits with 0
C18_WitnessPassed ==
    /\ runner_pc = "exited"
    /\ exit_code = 0
    /\ executed = <<"pass", "skip", "pass">>

\* C19: when the process has exited after the run was started, whether all
\* tests passed, some failed or errored, or discovery or execution raised, the
\* JSON report has been written.
C19_ReportWrittenBeforeExit == Exited => report.written

\* C19 on the paths that reach sys.exit(0) / sys.exit(1) after the tests
C19_ReportWrittenOnNormalExit == runner_pc = "exited" => report.written

\* C20: the report that is written holds in test_results.test_details one entry
\* per executed test, in execution order.
C20_ReportHoldsEveryOutcome ==
    report.written =>
        /\ Len(report.test_results.test_details) = Len(executed)
        /\ \A k \in DOMAIN executed :
              report.test_results.test_details[k].test = k

\* test_details is empty in every report
C20_TestDetailsAlwaysEmpty ==
    report.written => report.test_results.test_details = <<>>

\* the events of the run are tests that pass, fail, raise or are skipped
PlainRun ==
    \A k \in DOMAIN executed : executed[k] \in { "pass", "fail", "error", "skip" }

\* C21 as stated: for a run with total_tests > 0 the success rate is
\* passed_tests divided by total_tests, a number from 0 to 1.
C21_SuccessRateIsRatio ==
    (report.written /\ PlainRun /\ result.total_tests > 0)
        => /\ RatEq(report.test_results.success_rate,
                    Rational(result.passed_tests, result.total_tests))
           /\ report.test_results.success_rate.num >= 0
           /\ report.test_results.success_rate.num
                 <= report.test_results.success_rate.den

\* C21: for a run with total_tests > 0 the success rate in the report is
\* passed_tests divided by total_tests, times 100.
C21_SuccessRateIsPercentage ==
    (report.written /\ result.total_tests > 0)
        => report.test_results.success_rate.num * result.total_tests
              = 100 * result.passed_tests * report.test_results.success_rate.den

\* two of three tests passed: the report says 200/3, that is 66.7 per cent
C21_Witness ==
    /\ report.written
    /\ executed = <<"pass", "fail", "pass">>
    /\ RatEq(report.test_results.success_rate, Rational(200, 3))

\* C24: when --config-file names a file that does not exist or cannot be
\* read, the process exits with a non-zero code before a test is discovered or
\* executed.
C24_FailsFastOnBadOverride ==
    (config_pc # "unloaded" /\ common_file \in { MissingFile, UnreadableFile })
        => runner_pc \in { "idle", "crashed" } /\ executed = <<>>

\* C24 for the file that cannot be read: the process has ended with exit code 1
C24_UnreadableOverrideCrashes ==
    (config_pc # "unloaded" /\ common_file = UnreadableFile)
        => runner_pc = "crashed" /\ exit_code = 1 /\ executed = <<>>

\* run_tests has returned
RunCounted == runner_pc \in { "ran", "reported", "exited" }

\* C29: after a run the counts passed_tests, failed_tests, error_tests and
\* skipped_tests are each at least 0 and sum to total_tests, failed_tests is the
\* number of failure entries and error_tests the number of error entries, also
\* when a failure or an error is recorded for no counted test.
C29_CountsPartitionTheRun ==
    RunCounted =>
        /\ result.passed_tests >= 0 /\ result.failed_tests >= 0
        /\ result.error_tests >= 0 /\ result.skipped_tests >= 0
        /\ result.passed_tests + result.failed_tests + result.error_tests
              + result.skipped_tests = result.total_tests
        /\ result.failed_tests = Len(result.failures)
        /\ result.error_tests = Len(result.errors)

\* C29 without the sign of passed_tests, for the one run main() makes
C29_CountsSumToTotal ==
    RunCounted =>
        /\ result.failed_tests >= 0 /\ result.error_tests >= 0
        /\ result.skipped_tests >= 0
        /\ result.passed_tests + result.failed_tests + result.error_tests
              + result.skipped_tests = result.total_tests
        /\ result.failed_tests = Len(result.failures)
        /\ result.error_tests = Len(result.errors)

\* C29 for runs of tests that each pass, fail, raise or are skipped
C29_PlainRunsPartition ==
    (RunCounted /\ PlainRun) => result.passed_tests = CountOf(executed, "pass")

(***************************************************************************)
(* TestBasicLibraryAPIEdgeCases.test_concurrent_requests: the main thread  *)
(* starts five threads, joins each with a timeout of 30 seconds and then   *)
(* empties the queue; each thread makes one request on the shared client.  *)
(***************************************************************************)
\* for i in range(5)
NumThreads == 5

\* a thread that was created, and what join() on it has come to
NewThread == [st |-> "created", join |-> "none"]

\* success_count and error_count as the collection starts
ZeroCounts == [collected |-> FALSE, success_count |-> 0, error_count |-> 0]

\* what list_basic_libraries comes to in a worker
PoolOutcomes ==
    { Returned(APIResponse(RawOf(200, Body_ok))), Raised("ConnectionError") }

\* the tuple make_request puts on the queue
ResultOf(outcome) ==
    IF outcome.exc = "none"
    THEN [result_type |-> "success", result_value |-> PyInt(outcome.val.status_code)]
    ELSE [result_type |-> "error", result_value |-> Str(outcome.exc)]

\* the test starts: results = queue.Queue(), threads = []
test_concurrent_requests ==
    /\ main_pc = [phase |-> "idle", i |-> 0]
    /\ main_pc' = [phase |-> "start", i |-> 1]
    /\ workers' = [w \in 1..NumThreads |-> NewThread]
    /\ queue' = <<>>
    /\ counts' = NoCounts
    /\ calls' = <<>>
    /\ UNCHANGED <<normalizerVars, clientVars, configVars, invalidVars,
                   workflowVars, suiteVars, cleanupVars, healthVars,
                   runnerVars>>

\* one pass of the first loop: thread.start()
Start ==
    /\ main_pc.phase = "start"
    /\ workers' = [workers EXCEPT ![main_pc.i].st = "running"]
    /\ main_pc' = IF main_pc.i < NumThreads
                  THEN [phase |-> "start", i |-> main_pc.i + 1]
                  ELSE [phase |-> "join", i |-> 1]
    /\ UNCHANGED <<queue, counts, calls>>
    /\ UNCHANGED <<normalizerVars, clientVars, configVars, invalidVars,
                   workflowVars, suiteVars, cleanupVars, healthVars,
                   runnerVars>>

\* make_request in thread w: the request returns or raises, the result is put
\* on the queue and the thread ends
make_request(w, outcome) ==
    /\ w \in DOMAIN workers
    /\ workers[w].st = "running"
    /\ calls' = Append(calls, Call("list_basic_libraries", PyInt(w), outcome))
    /\ queue' = Append(queue, ResultOf(outcome))
    /\ workers' = [workers EXCEPT ![w].st = "done"]
    /\ UNCHANGED <<main_pc, counts>>
    /\ UNCHANGED <<normalizerVars, clientVars, configVars, invalidVars,
                   workflowVars, suiteVars, cleanupVars, healthVars,
                   runnerVars>>

\* where the main thread goes after a join
AfterJoin ==
    IF main_pc.i < NumThreads THEN [phase |-> "join", i |-> main_pc.i + 1]
    ELSE [phase |-> "collect", i |-> 0]

\* thread.join(timeout=30) returns because the thread has ended
Join ==
    /\ main_pc.phase = "join"
    /\ workers[main_pc.i].st = "done"
    /\ workers' = [workers EXCEPT ![main_pc.i].join = "ended"]
    /\ main_pc' = AfterJoin
    /\ counts' = IF AfterJoin.phase = "collect" THEN ZeroCounts ELSE counts
    /\ UNCHANGED <<queue, calls>>
    /\ UNCHANGED <<normalizerVars, clientVars, configVars, invalidVars,
                   workflowVars, suiteVars, cleanupVars, healthVars,
                   runnerVars>>

\* thread.join(timeout=30) returns after 30 seconds with the thread alive: its
\* request, with a timeout of 30 seconds per attempt and retries, is not over
JoinTimeout ==
    /\ main_pc.phase = "join"
    /\ workers[main_pc.i].st = "running"
    /\ workers' = [workers EXCEPT ![main_pc.i].join = "timeout"]
    /\ main_pc' = AfterJoin
    /\ counts' = IF AfterJoin.phase = "collect" THEN ZeroCounts ELSE counts
    /\ UNCHANGED <<queue, calls>>
    /\ UNCHANGED <<normalizerVars, clientVars, configVars, invalidVars,
                   workflowVars, suiteVars, cleanupVars, healthVars,
                   runnerVars>>

\* one pass of `while not results.empty()`: results.get() and the count
Collect ==
    /\ main_pc.phase = "collect"
    /\ queue # <<>>
    /\ queue' = Tail(queue)
    /\ counts' = IF Head(queue).result_type = "success"
                 THEN [counts EXCEPT !.success_count = @ + 1]
                 ELSE [counts EXCEPT !.error_count = @ + 1]
    /\ UNCHANGED <<main_pc, workers, calls>>
    /\ UNCHANGED <<normalizerVars, clientVars, configVars, invalidVars,
                   workflowVars, suiteVars, cleanupVars, healthVars,
                   runnerVars>>

\* results.empty() is true: the counts are printed and
\* assertGreater(success_count, 0) decides the test
Collected_All ==
    /\ main_pc.phase = "collect"
    /\ queue = <<>>
    /\ counts' = [counts EXCEPT !.collected = TRUE]
    /\ main_pc' = [phase |-> IF counts.success_count > 0 THEN "passed" ELSE "failed",
                   i |-> 0]
    /\ UNCHANGED <<workers, queue, calls>>
    /\ UNCHANGED <<normalizerVars, clientVars, configVars, invalidVars,
                   workflowVars, suiteVars, cleanupVars, healthVars,
                   runnerVars>>

InitPool ==
    /\ NormalizerIdle
    /\ retry_count = DefaultRetryCount
    /\ ClientIdle
    /\ HarnessIdle

NextPool ==
    \/ test_concurrent_requests
    \/ Start
    \/ \E w \in 1..NumThreads, outcome \in PoolOutcomes : make_request(w, outcome)
    \/ Join
    \/ JoinTimeout
    \/ Collect
    \/ Collected_All

\* one run of test_concurrent_requests
SpecPool == InitPool /\ [][NextPool]_vars

(***************************************************************************)
(* Properties of the concurrent requests, under SpecPool.                  *)
(***************************************************************************)
\* the main thread is past its joins
Collecting == main_pc.phase \in { "collect", "passed", "failed" }

\* the threads that have ended
Ended == { w \in DOMAIN workers : workers[w].st = "done" }

\* C28: when the main thread starts collecting, each of the 5 threads has ended
\* and has put exactly one result on the queue, so that success_count +
\* error_count = 5 when the queue has been emptied; no thread is still making
\* its request after the joins.
C28_AllThreadsEndedBeforeCollecting ==
    /\ Collecting => \A w \in DOMAIN workers : workers[w].st = "done"
    /\ (Collecting /\ counts.collected) =>
          counts.success_count + counts.error_count = NumThreads

\* C28 for the runs in which every join returned because its thread had ended
C28_EndedWhenNoJoinTimedOut ==
    (Collecting /\ \A w \in DOMAIN workers : workers[w].join = "ended") =>
        /\ \A w \in DOMAIN workers : workers[w].st = "done"
        /\ counts.success_count + counts.error_count + Len(queue) = NumThreads
        /\ counts.collected =>
              counts.success_count + counts.error_count = NumThreads

\* a thread puts one result, when it ends: the results counted and queued are
\* those of the threads that have ended
C28_OneResultPerEndedThread ==
    main_pc.phase # "idle" =>
        /\ Len(calls) = Cardinality(Ended)
        /\ IF Collecting
           THEN counts.success_count + counts.error_count + Len(queue)
                    = Cardinality(Ended)
           ELSE Len(queue) = Cardinality(Ended)

\* the test has passed with four results counted while a thread still runs
C28_CollectedWithThreadRunning ==
    /\ main_pc.phase = "passed"
    /\ counts.success_count + counts.error_count = NumThreads - 1
    /\ \E w \in DOMAIN workers : workers[w].st = "running"

====
